---- MODULE Spec2Model ----
(***************************************************************************)
(* Credential validation and bulk e-mail dispatch of CertificateGen.       *)
(*                                                                         *)
(*   lib/email-service.tsx                  sendBulkCertificates,          *)
(*                                          sendCertificateEmail,          *)
(*                                          sendBulkCertificatesPooled,    *)
(*                                          createPooledEmailTransporter   *)
(*   app/api/send-certificates/route.ts     POST (batch-send endpoint)     *)
(*   app/api/validate-gmail-credentials/route.ts                           *)
(*                                          checkRateLimit, POST           *)
(*   utils/secure-storage                   the credential vault           *)
(*   hooks/useCredentials, components/steps/certificate-generation.tsx     *)
(*                                          login, sendEmailsOnly          *)
(*   the SMTP test endpoint                 POST                           *)
(*                                                                         *)
(* The server is a single event loop: every action below is one            *)
(* run-to-completion segment of a handler, from one await to the next.     *)
(* The mail libraries (nodemailer, resend) and the clock are the           *)
(* environment; what they answer is chosen nondeterministically.           *)
(***************************************************************************)
EXTENDS Integers, Sequences, FiniteSets, TLC

(***************************************************************************)
(* Bounds of the model.                                                    *)
(***************************************************************************)
MaxRecipients == 2
MaxBatches == 2
MaxTotalRecipients == 3
MaxNow == 1500
TickMs == 250
MaxSelectN == 52
RateTickMs == 900000
MaxRateNow == 1800000
MaxPageLoads == 2
MaxHours == 1
KdfMs == 100
MaxSignals == 1

(***************************************************************************)
(* Program constants.                                                      *)
(***************************************************************************)
SEQ_DELAY_MS == 500
POOLED_THRESHOLD == 50
maxConnections == 5
RATE_LIMIT_WINDOW == 15 * 60 * 1000
RATE_LIMIT_MAX_ATTEMPTS == 5
SESSION_TIMEOUT == 60 * 60 * 1000

VARIABLES
    \* ---- batch-send endpoint and sendBulkCertificates ----
    now,            \* Date.now() / timer clock, in ms
    request,        \* body of the batch-send request being served
    call,           \* arguments sendBulkCertificates was called with
    strategy,       \* branch sendBulkCertificates took
    seqPc,          \* position of the sequential loop
    seqIdx,         \* recipient (1-based) the loop is at
    seqResults,     \* results array of the sequential loop
    timerStart,     \* time at which the 500 ms timer was set
    attempts,       \* history: sendCertificateEmail calls <<rcpt, start, end>>
    wire,           \* history: messages handed to a mail backend
    outcome,        \* how the sendBulkCertificates call ended
    response,       \* response of the batch-send endpoint
    \* ---- pooled transporter and pooled batches ----
    pooledEmailTransporter, \* module singleton: 0 (null) or a pool id
    pools,          \* transporters created so far
    bState,         \* per batch: "none", "running", "resolved", "threw"
    bArgs,          \* per batch: [n, credentials, pool]
    queuedRecipients,
    sentCount,
    results,
    inflight,       \* sendMail promises not settled yet
    emitting,       \* listeners the current 'idle' emission still has to call
    issued,         \* history: number of sendMail calls per batch and recipient
    closeCalls,     \* history: number of close() calls per batch
    \* ---- credential validation endpoint ----
    rateLimitStore, \* ip -> [count, resetTime]
    rateNow,        \* Date.now() of the validation server, in ms
    lastAttempt,    \* history: the last validation request and its outcome
    windowLog,      \* history: per client, the attempts of its current window
    smtpTestLog,    \* history: per client, the SMTP tests of its current window
    lastSmtpTest,   \* history: the last request to the SMTP test endpoint
    \* ---- credential validation endpoint, one await at a time ----
    postPc,         \* position of the POST handler being served
    postRequest,    \* the request being served
    postStages,     \* history: the checks the handler has made, in order
    rateLimitCheck, \* what checkRateLimit answered to this request
    transporter,    \* testEmailConnection's transporter: "null", "open", "closed"
    verifyOutcome,  \* history: how transporter.verify() settled
    isValid,        \* what testEmailConnection returned: "none", "true", "false"
    postResponse,   \* the response returned
    \* ---- credential vault in one browser tab ----
    dateNow,        \* Date.now() of the browser, in ms
    pageLoad,       \* number of the page load (module instance) now running
    sessionStorage, \* storage key -> item
    vaultOp,        \* history: the last vault operation and what it did
    prevOp,         \* history: the operation before it
    derivedIn,      \* history: per page load, the passphrase last derived
    sameWithinLoad, \* history: derivations of one page load all agreed
    \* ---- the wizard in the browser ----
    fetched,        \* history: the requests the client has issued
    localStorage,   \* the saved wizard session: <<field, sources of its value>>
    \* ---- the server process ----
    signals,        \* history: the signals shutdownHandler has handled
    logoOnDisk,     \* the static asset ./public/klh.png can be read
    \* ---- React state of the generation step and its credential hook ----
    hookState,      \* useCredentials: isAuthenticated, email
    sendUi,         \* sendEmailsOnly: position, emailStatus, isSendingMail, ...
    lastLogin       \* history: the last login and what it did to the vault

dispatchVars == <<now, request, call, strategy, seqPc, seqIdx, seqResults,
                  timerStart, attempts, wire, outcome, response>>
poolVars == <<pooledEmailTransporter, pools, bState, bArgs, queuedRecipients,
              sentCount, results, inflight, emitting, issued, closeCalls>>
rateVars == <<rateLimitStore, rateNow, lastAttempt, windowLog, smtpTestLog,
             lastSmtpTest>>
stageVars == <<postPc, postRequest, postStages, rateLimitCheck, transporter,
               verifyOutcome, isValid, postResponse>>
vaultVars == <<dateNow, pageLoad, sessionStorage, vaultOp, prevOp, derivedIn,
               sameWithinLoad>>
uiVars == <<hookState, sendUi, lastLogin>>
tailVars == <<fetched, localStorage, signals, logoOnDisk, uiVars>>
restVars == <<stageVars, vaultVars, tailVars>>
vars == <<dispatchVars, poolVars, rateVars, restVars>>

(***************************************************************************)
(* Data.                                                                   *)
(***************************************************************************)
Batches == 1..MaxBatches
Providers == {"resend", "gmail"}
SendingModes == {"undefined", "sequential", "pooled"}

\* credentials?: { email, appPassword }; NoCred stands for undefined / null
NoCred == [email |-> "", appPassword |-> ""]
GmailCred == [email |-> "sender@gmail.com", appPassword |-> "abcdabcdabcdabcd"]
EduCred == [email |-> "staff@klh.edu.in", appPassword |-> "wxyzwxyzwxyzwxyz"]
OtherCred == [email |-> "user@notgmail.org", appPassword |-> "mnopmnopmnopmnop"]
Credentials == {GmailCred, EduCred, OtherCred}

\* credentials.email.endsWith('@gmail.com')
isGmail(email) == email \in {"sender@gmail.com"}
\* credentials.email.includes('.edu.in')
isEducational(email) == email \in {"staff@klh.edu.in"}

(***************************************************************************)
(* Strings.  An address or a secret is a sequence of one-character         *)
(* strings, so that trim, toLowerCase, replace and the regular expressions *)
(* are computed character by character.                                    *)
(***************************************************************************)
LowerCase == <<"a", "b", "c", "d", "e", "f", "g", "h", "i", "j", "k", "l", "m", "n", "o", "p", "q", "r", "s", "t", "u", "v", "w", "x", "y", "z">>
UpperCase == <<"A", "B", "C", "D", "E", "F", "G", "H", "I", "J", "K", "L", "M", "N", "O", "P", "Q", "R", "S", "T", "U", "V", "W", "X", "Y", "Z">>
Digit == {"0", "1", "2", "3", "4", "5", "6", "7", "8", "9"}
Letter == {LowerCase[i] : i \in 1..26} \cup {UpperCase[i] : i \in 1..26}

\* \s of a regular expression
IsSpace(c) == c \in {" ", "\t", "\n"}

\* The lower-case letter of each capital
LowerOf ==
    [c \in {UpperCase[k] : k \in 1..26} |->
        LowerCase[CHOOSE k \in 1..26 : UpperCase[k] = c]]

\* String.prototype.toLowerCase
toLowerCase(s) ==
    [i \in 1..Len(s) |-> IF s[i] \in DOMAIN LowerOf THEN LowerOf[s[i]] ELSE s[i]]

\* String.prototype.trim
trim(s) ==
    IF \A i \in 1..Len(s) : IsSpace(s[i]) THEN <<>>
    ELSE SubSeq(s,
                CHOOSE i \in 1..Len(s) :
                    ~IsSpace(s[i]) /\ \A j \in 1..(i - 1) : IsSpace(s[j]),
                CHOOSE i \in 1..Len(s) :
                    ~IsSpace(s[i]) /\ \A j \in (i + 1)..Len(s) : IsSpace(s[j]))

\* appPassword.replace(/\s/g, '')
removeWhitespace(s) == SelectSeq(s, LAMBDA c : ~IsSpace(c))

\* String.prototype.includes
includes(s, sub) ==
    \E i \in 1..(Len(s) - Len(sub) + 1) : SubSeq(s, i, i + Len(sub) - 1) = sub

GMAIL_COM == <<"g", "m", "a", "i", "l", ".", "c", "o", "m">>
DOT_EDU_IN == <<".", "e", "d", "u", ".", "i", "n">>

\* /^[a-zA-Z0-9._%+-]+@(gmail\.com|[a-zA-Z0-9.-]+\.edu\.in)$/.test(s)
emailRegex(s) ==
    \E k \in 2..Len(s) :
        /\ s[k] = "@"
        /\ \A i \in 1..(k - 1) : s[i] \in Letter \cup Digit \cup {".", "_", "%", "+", "-"}
        /\ LET d == SubSeq(s, k + 1, Len(s)) IN
           \/ d = GMAIL_COM
           \/ /\ Len(d) > Len(DOT_EDU_IN)
              /\ SubSeq(d, Len(d) - Len(DOT_EDU_IN) + 1, Len(d)) = DOT_EDU_IN
              /\ \A i \in 1..(Len(d) - Len(DOT_EDU_IN)) :
                    d[i] \in Letter \cup Digit \cup {".", "-"}

\* /^[a-zA-Z0-9]+$/.test(s)
alnumRegex(s) == s # <<>> /\ \A i \in 1..Len(s) : s[i] \in Letter \cup Digit

\* Addresses and secrets a user may type.
ADDR_GMAIL == <<"u", "s", "e", "r", "@", "g", "m", "a", "i", "l", ".", "c", "o", "m">>
ADDR_EDU == <<"s", "@", "k", "l", "h", ".", "e", "d", "u", ".", "i", "n">>
ADDR_TYPED == <<" ", "U", "s", "e", "r", "@", "g", "m", "a", "i", "l", ".", "c", "o", "m">>
ADDR_OTHER == <<"u", "s", "e", "r", "@", "n", "o", "t", "g", "m", "a", "i", "l", ".", "o", "r", "g">>
ADDR_DOTTED == <<"a", ".", "e", "d", "u", ".", "i", "n", "@", "g", "m", "a", "i", "l", ".", "c", "o", "m">>
SECRET_PLAIN == <<"a", "b", "c", "d", "e", "f", "g", "h", "i", "j", "k", "l", "m", "n", "o", "p">>
SECRET_SPACED == <<"a", "b", "c", "d", " ", "e", "f", "g", "h", " ", "i", "j", "k", "l", " ", "m", "n", "o", "p">>
SECRET_SHORT == <<"a", "b", "c", "d", "e", "f", "g", "h", "i", "j", "k", "l", "m", "n", "o">>
Addresses == {ADDR_GMAIL, ADDR_EDU, ADDR_TYPED, ADDR_OTHER}
Secrets == {SECRET_PLAIN, SECRET_SPACED, SECRET_SHORT}

\* attachments: [{ filename: "klh-logo.png", path: "./public/klh.png",
\* cid: "klh-logo" }, ...]: nodemailer opens the file while it builds the
\* message, and sendMail rejects with this error when it cannot.
LOGO_ENOENT == "ENOENT: no such file or directory, open './public/klh.png'"

\* The errors sendMail can reject with.
SendMailErrors ==
    IF logoOnDisk THEN {"send failed"} ELSE {"send failed", LOGO_ENOENT}

(***************************************************************************)
(* The pooled transporter and sendBulkCertificatesPooled.                  *)
(***************************************************************************)
NoArgs == [n |-> 0, credentials |-> NoCred, pool |-> 0]

\* createPooledEmailTransporter: the module singleton is created on the
\* first call and returned as it is, open or closed, on every later one.
createPooledEmailTransporter(credentials) ==
    IF credentials = NoCred
    THEN [threw |-> TRUE, transporter |-> 0, pools |-> pools,
          error |-> "Email credentials not found. Please authenticate first."]
    ELSE IF pooledEmailTransporter # 0
    THEN [threw |-> FALSE, transporter |-> pooledEmailTransporter,
          pools |-> pools, error |-> ""]
    ELSE IF ~(isGmail(credentials.email) \/ isEducational(credentials.email))
    THEN [threw |-> TRUE, transporter |-> 0, pools |-> pools,
          error |-> "Unsupported email domain"]
    ELSE [threw |-> FALSE, transporter |-> Len(pools) + 1,
          pools |-> Append(pools, [closed |-> FALSE, auth |-> credentials,
                                   listeners |-> <<>>]),
          error |-> ""]

\* pooledTransporter.isIdle(): the pool has a free connection slot.  infl is
\* the set of unsettled sendMail calls; a call made on a closed pool (dead)
\* was refused and occupies nothing.
isIdle(p, infl) ==
    Cardinality({x \in infl : x.pool = p /\ ~x.dead}) < maxConnections

\* sendBulkCertificatesPooled up to the registration of its 'idle' listener
\* (batch b, n recipients numbered 1..n).  A throw of
\* createPooledEmailTransporter rejects the call.
sendBulkCertificatesPooled(b, n, credentials) ==
    LET c == createPooledEmailTransporter(credentials) IN
    /\ bState[b] = "none"
    /\ IF c.threw
       THEN /\ bState' = [bState EXCEPT ![b] = "threw"]
            /\ bArgs' = [bArgs EXCEPT ![b] =
                   [n |-> n, credentials |-> credentials, pool |-> 0]]
            /\ UNCHANGED <<pooledEmailTransporter, pools, queuedRecipients>>
       ELSE /\ pooledEmailTransporter' = c.transporter
            /\ pools' = [c.pools EXCEPT ![c.transporter].listeners = Append(@, b)]
            /\ bState' = [bState EXCEPT ![b] = "running"]
            /\ bArgs' = [bArgs EXCEPT ![b] =
                   [n |-> n, credentials |-> credentials, pool |-> c.transporter]]
            /\ queuedRecipients' = [queuedRecipients EXCEPT ![b] = [i \in 1..n |-> i]]
    /\ UNCHANGED <<sentCount, results, inflight, emitting, issued, closeCalls>>

\* A shift that leaves the recipient at the head of the queue.
shift_keep(q) == [head |-> Head(q), rest |-> q]

\* queuedRecipients.shift(): the recipient taken and the queue left
shift(q) == [head |-> Head(q), rest |-> Tail(q)]

\* A completion test that looks at the queue only.
AllProcessed_queueOnly(b, q, sc) == q = <<>>

\* queuedRecipients.length === 0 && sentCount === recipients.length
AllProcessed(b, q, sc) == q = <<>> /\ sc = bArgs[b].n

\* The body of the 'idle' listener from its while loop on, entered with the
\* listener's current queue q, counter sc, results res and the unsettled
\* sends infl: either the next recipient is shifted and its sendMail
\* awaited, or the loop is left and the completion test is made.
\* (The route hands Buffers over, so nothing is awaited before sendMail.)
HandlerLoop(b, q, sc, res, infl) ==
    LET p == bArgs[b].pool IN
    /\ sentCount' = [sentCount EXCEPT ![b] = sc]
    /\ results' = [results EXCEPT ![b] = res]
    /\ IF isIdle(p, infl) /\ q # <<>>
       THEN /\ queuedRecipients' = [queuedRecipients EXCEPT ![b] = shift(q).rest]
            /\ inflight' = infl \cup {[b |-> b, rcpt |-> shift(q).head, pool |-> p,
                                       dead |-> pools[p].closed]}
            /\ issued' = [issued EXCEPT ![b][shift(q).head] = @ + 1]
            /\ UNCHANGED <<pools, bState, closeCalls>>
       ELSE /\ queuedRecipients' = [queuedRecipients EXCEPT ![b] = q]
            /\ inflight' = infl
            /\ issued' = issued
            /\ IF AllProcessed(b, q, sc)
               THEN \* pooledTransporter.close(); resolve(results)
                    /\ pools' = [pools EXCEPT ![p].closed = TRUE]
                    /\ closeCalls' = [closeCalls EXCEPT ![b] = @ + 1]
                    /\ bState' = [bState EXCEPT ![b] = "resolved"]
               ELSE UNCHANGED <<pools, bState, closeCalls>>
    /\ UNCHANGED <<pooledEmailTransporter, bArgs>>

\* The pool emits 'idle': it does so only while it is open and has a free
\* slot; a closed pool never emits again.  The listeners are then called
\* one after the other, nothing else running in between.
IdleEvent(p) ==
    /\ emitting = <<>>
    /\ p \in 1..Len(pools)
    /\ ~pools[p].closed
    /\ isIdle(p, inflight)
    /\ pools[p].listeners # <<>>
    /\ emitting' = pools[p].listeners
    /\ UNCHANGED <<pooledEmailTransporter, pools, bState, bArgs,
                   queuedRecipients, sentCount, results, inflight, issued,
                   closeCalls>>
    /\ UNCHANGED <<dispatchVars, rateVars, restVars>>

\* One listener of the emission runs up to its first await or to its end.
RunListener ==
    /\ emitting # <<>>
    /\ emitting' = Tail(emitting)
    /\ LET b == Head(emitting) IN
       HandlerLoop(b, queuedRecipients[b], sentCount[b], results[b], inflight)
    /\ UNCHANGED <<dispatchVars, rateVars, restVars>>

\* An awaited sendMail settles (ok: accepted, otherwise it throws); the
\* handler records the result and goes round its loop again.
SendMailComplete(b, r, ok) ==
    /\ emitting = <<>>
    /\ ok => logoOnDisk
    /\ \E x \in inflight, err \in SendMailErrors :
          /\ x.b = b /\ x.rcpt = r /\ ~x.dead
          /\ HandlerLoop(b, queuedRecipients[b], sentCount[b] + 1,
                Append(results[b],
                       [rcpt |-> r, success |-> ok,
                        messageId |-> IF ok THEN "id" ELSE "none",
                        error |-> IF ok THEN "" ELSE err,
                        provider |-> "gmail-pooled"]),
                inflight \ {x})
    /\ UNCHANGED <<emitting, dispatchVars, rateVars, restVars>>

\* The recipients handed to the batches 1..k so far.
RECURSIVE RecipientsSoFar(_)
RecipientsSoFar(k) == IF k = 0 THEN 0 ELSE bArgs[k].n + RecipientsSoFar(k - 1)

\* A caller invokes the exported sendBulkCertificatesPooled; b is the next
\* unused batch id.  Calls may overlap: each is a request of its own.
\* The model stops taking calls at MaxTotalRecipients recipients in all.
CallPooled(b, n, credentials) ==
    /\ emitting = <<>>
    /\ \A b2 \in Batches : bState[b2] = "none" <=> b2 >= b
    /\ n + RecipientsSoFar(MaxBatches) <= MaxTotalRecipients
    /\ sendBulkCertificatesPooled(b, n, credentials)
    /\ UNCHANGED <<dispatchVars, rateVars, restVars>>

\* The same call made while no other pooled batch is running.
CallPooledAlone(b, n, credentials) ==
    /\ \A b2 \in Batches : bState[b2] # "running"
    /\ CallPooled(b, n, credentials)

(***************************************************************************)
(* The credential vault (utils/secure-storage) in one browser tab.         *)
(* PBKDF2 and AES-GCM are ideal: a key is its (passphrase, salt), and a    *)
(* ciphertext opens only under the key and nonce that made it and only if  *)
(* it was not altered.  A vault function is one action; the time its       *)
(* awaits take passes inside it.                                           *)
(***************************************************************************)
\* The instants Date.now() takes: whole timeouts, and a key derivation later
Instants ==
    {i * KdfMs + j * SESSION_TIMEOUT : i \in 0..1, j \in 0..MaxHours}

\* What getSecureRandom can return (salt, nonce, session entropy)
RandomBytes == {1, 2}

\* const STORAGE_KEY = 'sc_' + Math.random().toString(36).substring(2),
\* evaluated when the module is loaded: a new name with every page load
STORAGE_KEY == pageLoad
StorageKeys == 1..MaxPageLoads

\* [navigator.userAgent, navigator.language, screen size, timezone offset,
\*  window.location.origin].join('|') of the browser the tab runs in
browserFingerprint ==
    <<"M", "o", "z", "i", "l", "l", "a", "/", "5", ".", "0", " ", "(", "X", "1", "1", ";", " ", "L", "i", "n", "u", "x", " ", "x", "8", "6", "_", "6", "4", ")", "|", "e", "n", "-", "U", "S", "|", "1", "9", "2", "0", "x", "1", "0", "8", "0", "|", "0", "|", "h", "t", "t", "p", "s", ":", "/", "/", "a", "p", "p", ".", "e", "x", "a", "m", "p", "l", "e">>

\* btoa(s).substring(0, 32): 32 base64 characters are the encoding of the
\* first 24 bytes of s, by which they are represented here
btoa32(s) == SubSeq(s, 1, IF Len(s) < 24 THEN Len(s) ELSE 24)

\* A passphrase that keeps the whole of the combined string.
generateSessionPassword_whole(sessionEntropy) ==
    browserFingerprint \o <<ToString(sessionEntropy)>>

\* generateSessionPassword(), getSecureRandom(32) returning sessionEntropy
generateSessionPassword(sessionEntropy) ==
    btoa32(browserFingerprint \o <<ToString(sessionEntropy)>>)

\* deriveKey(password, salt)
deriveKey(password, salt) == [password |-> password, salt |-> salt]

NoCredential == [email |-> <<>>, appPassword |-> <<>>, timestamp |-> 0]
NoCiphertext == [key |-> deriveKey(<<>>, 0), iv |-> 0, data |-> NoCredential,
                 tag |-> "none"]
NoWriter == [load |-> 0, email |-> <<>>, appPassword |-> <<>>, at |-> 0]
NoItem == [kind |-> "null", encryptedData |-> NoCiphertext, iv |-> 0, salt |-> 0,
           timestamp |-> 0, written |-> NoWriter]

\* crypto.subtle.encrypt({ name: 'AES-GCM', iv }, key, data)
encrypt(key, iv, data) == [key |-> key, iv |-> iv, data |-> data, tag |-> "valid"]

\* crypto.subtle.decrypt({ name: 'AES-GCM', iv }, key, encryptedData): the
\* plaintext, or a throw when the authentication tag does not verify
decrypt(key, iv, encryptedData) ==
    IF encryptedData.tag = "valid" /\ encryptedData.key = key
       /\ encryptedData.iv = iv
    THEN [threw |-> FALSE, data |-> encryptedData.data]
    ELSE [threw |-> TRUE, data |-> NoCredential]

\* encryptCredentials(email, appPassword), entered at time t0, its storedData
\* built at time t1: a throw, or the item written under STORAGE_KEY.
\* (written is history: the page load, the arguments and the time of the
\* call that wrote it.)
encryptCredentials(email, appPassword, t0, t1, salt, iv, sessionEntropy) ==
    LET cleanAppPassword == removeWhitespace(appPassword)
        credentials == [email |-> toLowerCase(trim(email)),
                        appPassword |-> cleanAppPassword, timestamp |-> t0]
        key == deriveKey(generateSessionPassword(sessionEntropy), salt)
    IN
    IF email = <<>> \/ appPassword = <<>>
    THEN [threw |-> TRUE, item |-> NoItem]
    ELSE IF ~emailRegex(trim(email))
    THEN [threw |-> TRUE, item |-> NoItem]
    ELSE IF Len(cleanAppPassword) # 16 \/ ~alnumRegex(cleanAppPassword)
    THEN [threw |-> TRUE, item |-> NoItem]
    ELSE [threw |-> FALSE,
          item |-> [kind |-> "envelope",
                    encryptedData |-> encrypt(key, iv, credentials),
                    iv |-> iv, salt |-> salt, timestamp |-> t1,
                    written |-> [load |-> pageLoad, email |-> email,
                                 appPassword |-> appPassword, at |-> t0]]]

\* A removal that leaves the item where it is.
removeItem_keep(storage, key) == storage

\* sessionStorage.removeItem(key)
removeItem(storage, key) == [storage EXCEPT ![key] = NoItem]

\* clearCredentials(): its try block cannot fail here, its catch is idle
clearCredentials(storage) == removeItem(storage, STORAGE_KEY)

\* A try block whose expiry branches return null without clearCredentials.
decryptTry_noPurge(item, sessionEntropy, t0, t1) ==
    LET key == deriveKey(generateSessionPassword(sessionEntropy), item.salt)
        opened == decrypt(key, item.iv, item.encryptedData)
    IN
    IF item.kind \in {"null", "empty"}
    THEN [threw |-> FALSE, value |-> NoCredential, cleared |-> FALSE]
    ELSE IF item.kind # "envelope" \/ opened.threw
    THEN [threw |-> TRUE, value |-> NoCredential, cleared |-> FALSE]
    ELSE IF t1 - opened.data.timestamp > SESSION_TIMEOUT
    THEN [threw |-> FALSE, value |-> NoCredential, cleared |-> FALSE]
    ELSE [threw |-> FALSE, value |-> opened.data, cleared |-> FALSE]

\* The try block of decryptCredentials on the item found under STORAGE_KEY,
\* entered at time t0, the decrypted timestamp tested at time t1: what it
\* returns (NoCredential is null), whether it called clearCredentials, and
\* whether it threw (JSON.parse, atob or decrypt).
decryptTry(item, sessionEntropy, t0, t1) ==
    LET key == deriveKey(generateSessionPassword(sessionEntropy), item.salt)
        opened == decrypt(key, item.iv, item.encryptedData)
    IN
    IF item.kind \in {"null", "empty"}
    THEN [threw |-> FALSE, value |-> NoCredential, cleared |-> FALSE]
    ELSE IF item.kind # "envelope"
    THEN [threw |-> TRUE, value |-> NoCredential, cleared |-> FALSE]
    ELSE IF t0 - item.timestamp > SESSION_TIMEOUT
    THEN [threw |-> FALSE, value |-> NoCredential, cleared |-> TRUE]
    ELSE IF opened.threw
    THEN [threw |-> TRUE, value |-> NoCredential, cleared |-> FALSE]
    ELSE IF t1 - opened.data.timestamp > SESSION_TIMEOUT
    THEN [threw |-> FALSE, value |-> NoCredential, cleared |-> TRUE]
    ELSE [threw |-> FALSE, value |-> opened.data, cleared |-> FALSE]

\* A decryptCredentials without its catch.
decryptCredentials_nocatch(item, sessionEntropy, t0, t1) ==
    decryptTry(item, sessionEntropy, t0, t1)

\* decryptCredentials(): catch (error) { clearCredentials(); return null }
decryptCredentials(item, sessionEntropy, t0, t1) ==
    IF decryptTry(item, sessionEntropy, t0, t1).threw
    THEN [threw |-> FALSE, value |-> NoCredential, cleared |-> TRUE]
    ELSE decryptTry(item, sessionEntropy, t0, t1)

NoVaultOp == [op |-> "none", load |-> 0, before |-> NoItem, value |-> NoCredential,
              threw |-> FALSE, changed |-> FALSE, t0 |-> 0, t1 |-> 0]

(***************************************************************************)
(* Initial state: the modules have just been loaded.                       *)
(***************************************************************************)
NoRequest == [present |-> FALSE, n |-> 0, provider |-> "", sendingMode |-> "",
              credentials |-> NoCred]
NoCall == [via |-> "none", n |-> 0, provider |-> "", sendingMode |-> "",
           credentials |-> NoCred]
NoOutcome == [state |-> "none", error |-> ""]
NoResponse == [status |-> 0, success |-> FALSE, sentCount |-> 0, errors |-> <<>>,
               provider |-> "", mode |-> "", error |-> ""]
Clients == {"10.0.0.1", "10.0.0.2"}
NoEntry == [count |-> 0, resetTime |-> 0]
NoAttempt == [ip |-> "", at |-> 0, kind |-> "", checked |-> FALSE, status |-> 0,
              before |-> NoEntry, after |-> NoEntry, resetTime |-> 0]
NoWindow == [first |-> 0, n |-> 0, prevFull |-> FALSE]
NoLiveWindow == [first |-> -1, n |-> 0]
NoSmtpTest == [ip |-> "", kind |-> "", live |-> FALSE, rateChecked |-> FALSE,
               status |-> 0]

NoBody == [json |-> "none", email |-> <<>>, appPassword |-> <<>>]
NoPostRequest == [method |-> "", ip |-> "", nodeEnv |-> "", https |-> FALSE,
                  body |-> NoBody]
NoCheck == [checked |-> FALSE, allowed |-> FALSE, resetTime |-> 0]
NoISO == [day |-> -1, ms |-> -1]
NoPostResponse == [status |-> 0, success |-> "absent", error |-> "",
                   resetTime |-> NoISO, headers |-> {}]

InitDispatch ==
    /\ now = 0
    /\ request = NoRequest
    /\ call = NoCall
    /\ strategy = "none"
    /\ seqPc = "idle"
    /\ seqIdx = 0
    /\ seqResults = <<>>
    /\ timerStart = 0
    /\ attempts = <<>>
    /\ wire = <<>>
    /\ outcome = NoOutcome
    /\ response = NoResponse

InitPool ==
    /\ pooledEmailTransporter = 0
    /\ pools = <<>>
    /\ bState = [b \in Batches |-> "none"]
    /\ bArgs = [b \in Batches |-> NoArgs]
    /\ queuedRecipients = [b \in Batches |-> <<>>]
    /\ sentCount = [b \in Batches |-> 0]
    /\ results = [b \in Batches |-> <<>>]
    /\ inflight = {}
    /\ emitting = <<>>
    /\ issued = [b \in Batches |-> [r \in 1..MaxRecipients |-> 0]]
    /\ closeCalls = [b \in Batches |-> 0]

InitRate ==
    /\ rateLimitStore = [ip \in Clients |-> NoEntry]
    /\ rateNow = 0
    /\ lastAttempt = NoAttempt
    /\ windowLog = [ip \in Clients |-> NoWindow]
    /\ smtpTestLog = [ip \in Clients |-> NoLiveWindow]
    /\ lastSmtpTest = NoSmtpTest

InitStage ==
    /\ postPc = "idle"
    /\ postRequest = NoPostRequest
    /\ postStages = <<>>
    /\ rateLimitCheck = NoCheck
    /\ transporter = "null"
    /\ verifyOutcome = "none"
    /\ isValid = "none"
    /\ postResponse = NoPostResponse

InitVault ==
    /\ dateNow = 0
    /\ pageLoad = 1
    /\ sessionStorage = [k \in StorageKeys |-> NoItem]
    /\ vaultOp = NoVaultOp
    /\ prevOp = "none"
    /\ derivedIn = [l \in 1..MaxPageLoads |-> <<>>]
    /\ sameWithinLoad = TRUE

NoHookState == [isAuthenticated |-> FALSE, email |-> <<>>]
NoSendUi == [pc |-> "idle", emailProvider |-> "", emailStatus |-> "idle",
             isSendingMail |-> FALSE, showDevNav |-> FALSE, returned |-> "none"]
NoLogin == [answer |-> "none", storeCalled |-> FALSE, vaultChanged |-> FALSE]

InitClientProcess ==
    /\ fetched = {}
    /\ localStorage = {}
    /\ signals = <<>>
    /\ hookState = NoHookState
    /\ sendUi = NoSendUi
    /\ lastLogin = NoLogin

\* The deployment has the logo asset where the mailer looks for it.
InitTail ==
    /\ InitClientProcess
    /\ logoOnDisk = TRUE

InitRest == InitStage /\ InitVault /\ InitTail

Init == InitDispatch /\ InitPool /\ InitRate /\ InitRest

(***************************************************************************)
(* sendCertificateEmail and the sequential loop of sendBulkCertificates.   *)
(***************************************************************************)
\* provider: EmailProvider = "resend" (default parameter)
DefaultProvider(provider) == IF provider = "undefined" THEN "resend" ELSE provider

\* createEmailTransporter: a fresh single-connection transporter, or a throw
createEmailTransporter(credentials) ==
    IF credentials = NoCred
    THEN [threw |-> TRUE,
          error |-> "Email credentials not found. Please authenticate first."]
    ELSE IF isGmail(credentials.email) \/ isEducational(credentials.email)
    THEN [threw |-> FALSE, error |-> ""]
    ELSE [threw |-> TRUE, error |-> "Unsupported email domain"]

\* What the mail backend can answer to one send.  nodemailer's sendMail
\* resolves ("accepted") or rejects ("thrown", or "noLogo" when the logo
\* file cannot be read, which no send survives); resend.emails.send resolves
\* with {data, error}: data set ("accepted"), or data null and error set
\* ("errorReturned"), or it rejects ("thrown").  A send that fails before
\* any backend is reached has the single outcome "notSent".
EnvOutcomes(provider, credentials) ==
    IF provider = "gmail"
    THEN IF credentials = NoCred \/ createEmailTransporter(credentials).threw
         THEN {"notSent"}
         ELSE IF logoOnDisk THEN {"accepted", "thrown"} ELSE {"thrown", "noLogo"}
    ELSE {"accepted", "errorReturned", "thrown"}

\* sendCertificateEmail for recipient rcpt, the backend answering env:
\* the object it returns, and whether a message went to a backend.
sendCertificateEmail(rcpt, provider, credentials, env) ==
    LET failed(msg) == [rcpt |-> rcpt, success |-> FALSE, messageId |-> "none",
                        error |-> msg, provider |-> provider]
    IN
    IF provider = "gmail"
    THEN IF credentials = NoCred
         THEN [result |-> failed("Gmail credentials required but not provided"),
               sent |-> FALSE]
         ELSE IF createEmailTransporter(credentials).threw
         THEN [result |-> failed(createEmailTransporter(credentials).error),
               sent |-> FALSE]
         ELSE IF env = "accepted"
         THEN [result |-> [rcpt |-> rcpt, success |-> TRUE, messageId |-> "id",
                           error |-> "", provider |-> "gmail"],
               sent |-> TRUE]
         ELSE IF env = "noLogo"
         THEN [result |-> failed(LOGO_ENOENT), sent |-> FALSE]
         ELSE [result |-> failed("send failed"), sent |-> TRUE]
    ELSE IF env = "thrown"
         THEN [result |-> failed("send failed"), sent |-> TRUE]
         ELSE \* return { success: true, messageId: response.data?.id, ... }
              [result |-> [rcpt |-> rcpt, success |-> TRUE,
                           messageId |-> IF env = "accepted" THEN "id"
                                         ELSE "undefined",
                           error |-> "", provider |-> "resend"],
               sent |-> TRUE]

\* A threshold test that leaves the threshold itself out.
shouldUsePooled_above(sendingMode, provider, n) ==
    \/ sendingMode = "pooled"
    \/ (sendingMode # "sequential" /\ provider = "gmail" /\ n > POOLED_THRESHOLD)

\* const shouldUsePooled = sendingMode === "pooled" || (...)
shouldUsePooled(sendingMode, provider, n) ==
    \/ sendingMode = "pooled"
    \/ (sendingMode # "sequential" /\ provider = "gmail" /\ n >= POOLED_THRESHOLD)

\* The branch of sendBulkCertificates that is executed.
SelectedStrategy(sendingMode, provider, n) ==
    IF shouldUsePooled(sendingMode, provider, n) /\ provider = "gmail"
    THEN "pooled"
    ELSE "sequential"

\* The sendBulkCertificates call ends: it returns res or throws error.  For
\* the endpoint (via = "route") the response is built in the same segment.
Finish(via, bodyProvider, state, error, res) ==
    /\ outcome' = [state |-> state, error |-> error]
    /\ response' =
         IF via # "route" THEN response
         ELSE IF state = "threw"
         THEN [NoResponse EXCEPT !.status = 500, !.error = error]
         ELSE [status |-> 200, success |-> TRUE,
               sentCount |-> Len(SelectSeq(res, LAMBDA r : r.success)),
               errors |-> SelectSeq(res, LAMBDA r : ~r.success),
               provider |-> DefaultProvider(bodyProvider),
               mode |-> IF res # <<>> /\ res[1].provider = "gmail-pooled"
                        THEN "pooled" ELSE "sequential",
               error |-> ""]

\* sendBulkCertificates from its entry to its first await (or its end).
sendBulkCertificates(via, bodyProvider, n, providerArg, sendingMode, credentials) ==
    LET provider == DefaultProvider(providerArg) IN
    /\ call' = [via |-> via, n |-> n, provider |-> provider,
                sendingMode |-> sendingMode, credentials |-> credentials]
    /\ strategy' = SelectedStrategy(sendingMode, provider, n)
    /\ IF SelectedStrategy(sendingMode, provider, n) = "pooled"
       THEN /\ IF credentials = NoCred
               THEN /\ Finish(via, bodyProvider, "threw",
                              "Gmail credentials required for pooled sending", <<>>)
                    /\ UNCHANGED poolVars
               ELSE /\ sendBulkCertificatesPooled(1, n, credentials)
                    /\ IF createPooledEmailTransporter(credentials).threw
                       THEN Finish(via, bodyProvider, "threw",
                                   createPooledEmailTransporter(credentials).error, <<>>)
                       ELSE /\ outcome' = [state |-> "pending", error |-> ""]
                            /\ response' = response
            /\ UNCHANGED <<seqPc, seqIdx, attempts>>
       ELSE /\ UNCHANGED poolVars
            /\ IF n = 0
               THEN /\ seqPc' = "done"
                    /\ Finish(via, bodyProvider, "returned", "", <<>>)
                    /\ UNCHANGED <<seqIdx, attempts>>
               ELSE /\ seqPc' = "sending"
                    /\ seqIdx' = 1
                    /\ attempts' = <<[rcpt |-> 1, start |-> now, end |-> -1]>>
                    /\ outcome' = [state |-> "pending", error |-> ""]
                    /\ response' = response
    /\ UNCHANGED <<now, seqResults, timerStart, wire>>

\* POST of app/api/send-certificates/route.ts: the body is destructured
\* into recipients, provider and sendingMode, and sendBulkCertificates is
\* called with these three arguments.
SendCertificatesPOST(body) ==
    /\ request = NoRequest /\ call = NoCall
    /\ body.present
    /\ request' = body
    /\ IF body.n = 0
       THEN /\ response' = [NoResponse EXCEPT !.status = 400,
                                               !.error = "No recipients provided"]
            /\ UNCHANGED <<now, call, strategy, seqPc, seqIdx, seqResults,
                           timerStart, attempts, wire, outcome, poolVars>>
       ELSE sendBulkCertificates("route", body.provider, body.n, body.provider,
                                 body.sendingMode, NoCred)
    /\ UNCHANGED <<rateVars, restVars>>

\* Another caller of the exported sendBulkCertificates.
CallSendBulkCertificates(n, provider, sendingMode, credentials) ==
    /\ request = NoRequest /\ call = NoCall
    /\ sendBulkCertificates("direct", provider, n, provider, sendingMode, credentials)
    /\ UNCHANGED <<request, rateVars, restVars>>

\* The awaited sendCertificateEmail settles: results.push, then the 500 ms
\* timer is set.
SeqResolve(env) ==
    /\ seqPc = "sending"
    /\ env \in EnvOutcomes(call.provider, call.credentials)
    /\ LET r == sendCertificateEmail(seqIdx, call.provider, call.credentials, env) IN
       /\ seqResults' = Append(seqResults, r.result)
       /\ wire' = IF r.sent
                  THEN Append(wire, [rcpt |-> seqIdx, provider |-> call.provider,
                                     auth |-> call.credentials,
                                     accepted |-> env = "accepted"])
                  ELSE wire
    /\ attempts' = [attempts EXCEPT ![seqIdx].end = now]
    /\ timerStart' = now
    /\ seqPc' = "delay"
    /\ UNCHANGED <<now, request, call, strategy, seqIdx, outcome, response,
                   poolVars, rateVars, restVars>>

\* A loop that does not wait for its timer.
TimerFired_nowait(start, t) == t >= start

\* await new Promise((resolve) => setTimeout(resolve, 500)): the timer set
\* at start has fired by time t
TimerFired(start, t) == t - start >= SEQ_DELAY_MS

\* The timer fires, not before SEQ_DELAY_MS have passed: the loop goes to
\* its next recipient, or the function returns its results.
SeqDelayElapsed ==
    /\ seqPc = "delay"
    /\ TimerFired(timerStart, now)
    /\ IF seqIdx < call.n
       THEN /\ seqIdx' = seqIdx + 1
            /\ seqPc' = "sending"
            /\ attempts' = Append(attempts,
                               [rcpt |-> seqIdx + 1, start |-> now, end |-> -1])
            /\ UNCHANGED <<outcome, response>>
       ELSE /\ seqPc' = "done"
            /\ Finish(call.via, request.provider, "returned", "", seqResults)
            /\ UNCHANGED <<seqIdx, attempts>>
    /\ UNCHANGED <<now, request, call, strategy, seqResults, timerStart, wire,
                   poolVars, rateVars, restVars>>

\* The promise of sendBulkCertificatesPooled has been resolved: the awaiting
\* sendBulkCertificates returns its results.
PooledReturn ==
    /\ strategy = "pooled"
    /\ outcome.state = "pending"
    /\ bState[1] = "resolved"
    /\ emitting = <<>>
    /\ Finish(call.via, request.provider, "returned", "", results[1])
    /\ UNCHANGED <<now, request, call, strategy, seqPc, seqIdx, seqResults,
                   timerStart, attempts, wire, poolVars, rateVars, restVars>>

\* Time passes while a send or the timer is awaited.
Tick ==
    /\ seqPc \in {"sending", "delay"}
    /\ now + TickMs <= MaxNow
    /\ now' = now + TickMs
    /\ UNCHANGED <<request, call, strategy, seqPc, seqIdx, seqResults,
                   timerStart, attempts, wire, outcome, response,
                   poolVars, rateVars, restVars>>

RequestBodies ==
    [present : {TRUE}, n : 0..MaxRecipients,
     provider : Providers \cup {"undefined"}, sendingMode : SendingModes,
     credentials : {NoCred, GmailCred}]

NextDispatch ==
    \/ \E body \in RequestBodies : SendCertificatesPOST(body)
    \/ \E n \in 0..MaxRecipients, provider \in Providers,
          sendingMode \in SendingModes, c \in Credentials \cup {NoCred} :
          CallSendBulkCertificates(n, provider, sendingMode, c)
    \/ \E env \in {"accepted", "errorReturned", "thrown", "notSent"} : SeqResolve(env)
    \/ SeqDelayElapsed
    \/ Tick
    \/ \E p \in 1..MaxBatches : IdleEvent(p)
    \/ RunListener
    \/ \E b \in Batches, r \in 1..MaxRecipients, ok \in BOOLEAN :
          SendMailComplete(b, r, ok)
    \/ PooledReturn

SpecDispatch == Init /\ [][NextDispatch]_vars

(***************************************************************************)
(* Strategy selection on its own, for recipient counts around the          *)
(* threshold: the arguments are drawn first, then the test is applied.     *)
(***************************************************************************)
InitSelect ==
    /\ InitPool /\ InitRate /\ InitRest
    /\ now = 0 /\ request = NoRequest /\ strategy = "none" /\ seqPc = "idle"
    /\ seqIdx = 0 /\ seqResults = <<>> /\ timerStart = 0 /\ attempts = <<>>
    /\ wire = <<>> /\ outcome = NoOutcome /\ response = NoResponse
    /\ call \in [via : {"direct"}, n : 0..MaxSelectN, provider : Providers,
                 sendingMode : SendingModes, credentials : {NoCred, GmailCred}]

SelectStrategy ==
    /\ strategy = "none"
    /\ call.via # "none"
    /\ strategy' = SelectedStrategy(call.sendingMode, call.provider, call.n)
    /\ UNCHANGED <<now, request, call, seqPc, seqIdx, seqResults, timerStart,
                   attempts, wire, outcome, response, poolVars, rateVars, restVars>>

NextSelect == SelectStrategy

SpecSelect == InitSelect /\ [][NextSelect]_vars

(***************************************************************************)
(* The credential validation endpoint and its rate limiter.                *)
(***************************************************************************)
\* A limiter whose ceiling is off by one.
checkRateLimit_offByOne(store, ip, t) ==
    LET entry == store[ip] IN
    IF entry = NoEntry \/ t > entry.resetTime
    THEN [allowed |-> TRUE, resetTime |-> 0,
          store |-> [store EXCEPT ![ip] =
                        [count |-> 1, resetTime |-> t + RATE_LIMIT_WINDOW]]]
    ELSE IF entry.count > RATE_LIMIT_MAX_ATTEMPTS
    THEN [allowed |-> FALSE, resetTime |-> entry.resetTime, store |-> store]
    ELSE [allowed |-> TRUE, resetTime |-> 0,
          store |-> [store EXCEPT ![ip].count = @ + 1]]

\* A limiter that counts only the attempt that opens a window.
checkRateLimit_noIncrement(store, ip, t) ==
    LET entry == store[ip] IN
    IF entry = NoEntry \/ t > entry.resetTime
    THEN [allowed |-> TRUE, resetTime |-> 0,
          store |-> [store EXCEPT ![ip] =
                        [count |-> 1, resetTime |-> t + RATE_LIMIT_WINDOW]]]
    ELSE IF entry.count >= RATE_LIMIT_MAX_ATTEMPTS
    THEN [allowed |-> FALSE, resetTime |-> entry.resetTime, store |-> store]
    ELSE [allowed |-> TRUE, resetTime |-> 0, store |-> store]

\* checkRateLimit(ip) at time t on store: the answer and the store it leaves
checkRateLimit(store, ip, t) ==
    LET entry == store[ip] IN
    IF entry = NoEntry \/ t > entry.resetTime
    THEN [allowed |-> TRUE, resetTime |-> 0,
          store |-> [store EXCEPT ![ip] =
                        [count |-> 1, resetTime |-> t + RATE_LIMIT_WINDOW]]]
    ELSE IF entry.count >= RATE_LIMIT_MAX_ATTEMPTS
    THEN [allowed |-> FALSE, resetTime |-> entry.resetTime, store |-> store]
    ELSE [allowed |-> TRUE, resetTime |-> 0,
          store |-> [store EXCEPT ![ip].count = @ + 1]]

\* What a validation request can be: sent over plain http in production
\* ("insecure"), a body that is not JSON ("badJson"), a JSON null body
\* ("nullBody", destructuring throws), fields rejected by validateInput
\* ("badFormat"), or well-formed credentials that the mail server rejects
\* ("authFail") or accepts ("authOk").
RequestKinds == {"insecure", "badJson", "nullBody", "badFormat", "authFail", "authOk"}

\* The status POST answers with, given the rate check's answer.
ValidationStatus(kind, allowed) ==
    IF kind = "insecure" THEN 400
    ELSE IF ~allowed THEN 429
    ELSE IF kind = "badJson" THEN 400
    ELSE IF kind = "nullBody" THEN 500
    ELSE IF kind = "badFormat" THEN 400
    ELSE IF kind = "authFail" THEN 401
    ELSE 200

\* POST of app/api/validate-gmail-credentials/route.ts for a request of
\* client ip.  The rate check is made right after the transport check.
ValidateCredentialsPOST(ip, kind) ==
    LET rl == checkRateLimit(rateLimitStore, ip, rateNow)
        checked == kind # "insecure"
        w == windowLog[ip]
    IN
    /\ rateLimitStore' = IF checked THEN rl.store ELSE rateLimitStore
    /\ lastAttempt' = [ip |-> ip, at |-> rateNow, kind |-> kind, checked |-> checked,
                       status |-> ValidationStatus(kind, rl.allowed),
                       before |-> rateLimitStore[ip],
                       after |-> IF checked THEN rl.store[ip] ELSE rateLimitStore[ip],
                       resetTime |-> IF checked /\ ~rl.allowed THEN rl.resetTime ELSE 0]
    /\ windowLog' =
         IF ~checked THEN windowLog
         ELSE IF w.n = 0 \/ rateNow > w.first + 900000
         THEN [windowLog EXCEPT ![ip] = [first |-> rateNow, n |-> 1, prevFull |-> w.n >= 6]]
         ELSE [windowLog EXCEPT ![ip].n = IF @ < 6 THEN @ + 1 ELSE @]
    /\ UNCHANGED <<rateNow, smtpTestLog, lastSmtpTest, dispatchVars, poolVars,
                   restVars>>

\* What a request to the SMTP test endpoint can be: a body that is not JSON
\* or lacks the fields (request.json() or appPassword.substring throws
\* before the transporter is created), or any email and password, which
\* the mail server rejects or accepts; nothing tests the format.
SmtpTestKinds == {"badJson", "nullBody", "badFormat", "authFail", "authOk"}

\* The log of live checks after one more at time t for client ip: a
\* window of RATE_LIMIT_WINDOW opens with the first of them, and the count
\* stops one above the ceiling.
LiveLogged(log, ip, t) ==
    LET w == log[ip]
        opened == IF w = NoLiveWindow \/ t > w.first + RATE_LIMIT_WINDOW
                  THEN [first |-> t, n |-> 0] ELSE w
    IN [log EXCEPT ![ip] =
           [opened EXCEPT !.n = IF @ <= RATE_LIMIT_MAX_ATTEMPTS THEN @ + 1 ELSE @]]

\* POST of the SMTP test endpoint for a request of client ip:
\* createTransport with the body's credentials, transporter.verify().
SmtpTestPOST(ip, kind) ==
    LET live == kind \notin {"badJson", "nullBody"} IN
    /\ smtpTestLog' = IF live THEN LiveLogged(smtpTestLog, ip, rateNow)
                      ELSE smtpTestLog
    /\ lastSmtpTest' = [ip |-> ip, kind |-> kind, live |-> live,
                        rateChecked |-> FALSE,
                        status |-> IF kind = "authOk" THEN 200 ELSE 400]
    /\ UNCHANGED <<rateLimitStore, rateNow, lastAttempt, windowLog, dispatchVars,
                   poolVars, restVars>>

\* Time passes on the validation server.
RateTick ==
    /\ rateNow + RateTickMs <= MaxRateNow
    /\ rateNow' = rateNow + RateTickMs
    /\ UNCHANGED <<rateLimitStore, lastAttempt, windowLog, smtpTestLog,
                   lastSmtpTest, dispatchVars, poolVars, restVars>>

NextRate ==
    \/ \E ip \in Clients, kind \in RequestKinds : ValidateCredentialsPOST(ip, kind)
    \/ RateTick

SpecRate == Init /\ [][NextRate]_vars

\* The two endpoints that test credentials against the mail server, called
\* by one client.
LiveClient == "10.0.0.1"

NextLive ==
    \/ \E kind \in RequestKinds : ValidateCredentialsPOST(LiveClient, kind)
    \/ \E kind \in SmtpTestKinds : SmtpTestPOST(LiveClient, kind)
    \/ RateTick

SpecLive == Init /\ [][NextLive]_vars

(***************************************************************************)
(* The credential validation endpoint served one await at a time:          *)
(* POST up to `await request.json()`, then up to `await                    *)
(* transporter.verify()` inside testEmailConnection, then to its return.   *)
(***************************************************************************)
\* validateInput(email, appPassword); a field the body lacks is empty
validateInput(email, appPassword) ==
    IF email = <<>>
    THEN [valid |-> FALSE, error |-> "Email is required"]
    ELSE IF ~emailRegex(trim(email))
    THEN [valid |-> FALSE,
          error |-> "Please enter a valid Gmail address or educational email (.edu.in)"]
    ELSE IF appPassword = <<>>
    THEN [valid |-> FALSE, error |-> "App password is required"]
    ELSE IF Len(removeWhitespace(appPassword)) # 16
    THEN [valid |-> FALSE, error |-> "App password must be 16 characters"]
    ELSE IF ~alnumRegex(removeWhitespace(appPassword))
    THEN [valid |-> FALSE, error |-> "App password contains invalid characters"]
    ELSE [valid |-> TRUE, error |-> ""]

\* A handler that goes on whatever validateInput answered.
FormatRejected_never(validation) == FALSE

\* if (!validation.valid) return ... status 400
FormatRejected(validation) == ~validation.valid

\* A finally block that closes after a successful verify only.
finallyClose_onSuccess(t, verified) == IF t # "null" /\ verified THEN "closed" ELSE t

\* finally { if (transporter) transporter.close() }: the transporter left
\* behind, whether verify() resolved (verified) or threw
finallyClose(t, verified) == IF t # "null" THEN "closed" ELSE t

\* Date.prototype.toISOString of a time in ms, and Date.parse of the string:
\* the calendar day and the time of day, to the millisecond.
toISOString(ms) == [day |-> ms \div 86400000, ms |-> ms % 86400000]
DateParse(iso) == iso.day * 86400000 + iso.ms

\* const headers = {...} of POST (and its copy in the outer catch)
SecurityHeaders ==
    {<<"X-Content-Type-Options", "nosniff">>, <<"X-Frame-Options", "DENY">>,
     <<"X-XSS-Protection", "1; mode=block">>,
     <<"Cache-Control", "no-store, no-cache, must-revalidate">>,
     <<"Pragma", "no-cache">>}

\* NextResponse.json({ success, error }, { status, headers })
JsonResponse(status, success, error) ==
    [status |-> status, success |-> success, error |-> error,
     resetTime |-> NoISO, headers |-> SecurityHeaders]

\* A 429 answer that reports the time of the request.
RateLimitedResponse_now(check, t) ==
    [JsonResponse(429, "false",
                  "Too many validation attempts. Please try again later.")
     EXCEPT !.resetTime = toISOString(t)]

\* The 429 answer: resetTime is rateLimitCheck.resetTime, or new Date()
\* when that is missing.
RateLimitedResponse(check, t) ==
    [JsonResponse(429, "false",
                  "Too many validation attempts. Please try again later.")
     EXCEPT !.resetTime = toISOString(IF check.resetTime # 0
                                      THEN check.resetTime ELSE t)]

\* The error message of the 401 answer, chosen by email.includes('.edu.in')
AuthFailedMessage(email) ==
    IF includes(email, DOT_EDU_IN)
    THEN "Unable to connect to your institutional email server."
    ELSE "Invalid email or app password. Please check your credentials."

\* POST from its entry to `await request.json()`: the HTTPS check, then the
\* rate check of the client.
PostReceived(r) ==
    /\ postPc \in {"idle", "done"}
    /\ r.method = "POST"
    /\ postRequest' = r
    /\ transporter' = "null"
    /\ verifyOutcome' = "none"
    /\ isValid' = "none"
    /\ IF r.nodeEnv = "production" /\ ~r.https
       THEN /\ postStages' = <<"transport">>
            /\ postResponse' = JsonResponse(400, "false",
                                   "HTTPS required for credential validation")
            /\ postPc' = "done"
            /\ rateLimitCheck' = NoCheck
            /\ UNCHANGED rateLimitStore
       ELSE LET rl == checkRateLimit(rateLimitStore, r.ip, rateNow)
                check == [checked |-> TRUE, allowed |-> rl.allowed,
                          resetTime |-> rl.resetTime]
            IN
            /\ postStages' = <<"transport", "rate">>
            /\ rateLimitStore' = rl.store
            /\ rateLimitCheck' = check
            /\ IF ~rl.allowed
               THEN /\ postResponse' = RateLimitedResponse(check, rateNow)
                    /\ postPc' = "done"
               ELSE /\ postResponse' = NoPostResponse
                    /\ postPc' = "json"
    /\ UNCHANGED <<rateNow, lastAttempt, windowLog, smtpTestLog, lastSmtpTest,
                   dispatchVars, poolVars, vaultVars, tailVars>>

\* request.json() has settled: the body is destructured and validated, and
\* testEmailConnection runs up to `await transporter.verify()`.
PostBodyRead ==
    /\ postPc = "json"
    /\ LET body == postRequest.body
           validation == validateInput(body.email, body.appPassword)
       IN
       IF body.json = "invalid"
       THEN /\ postStages' = postStages \o <<"parse">>
            /\ postResponse' = JsonResponse(400, "false",
                                            "Invalid JSON in request body")
            /\ postPc' = "done"
            /\ UNCHANGED transporter
       ELSE IF body.json = "null"
       THEN \* const { email, appPassword } = null throws: the outer catch
            /\ postStages' = postStages \o <<"parse">>
            /\ postResponse' = JsonResponse(500, "false", "Internal server error")
            /\ postPc' = "done"
            /\ UNCHANGED transporter
       ELSE IF FormatRejected(validation)
       THEN /\ postStages' = postStages \o <<"parse", "format">>
            /\ postResponse' = JsonResponse(400, "false", validation.error)
            /\ postPc' = "done"
            /\ UNCHANGED transporter
       ELSE \* transporter = nodemailer.createTransport({...})
            /\ postStages' = postStages \o <<"parse", "format", "live">>
            /\ transporter' = "open"
            /\ postPc' = "verify"
            /\ UNCHANGED postResponse
    /\ UNCHANGED <<postRequest, rateLimitCheck, verifyOutcome, isValid,
                   rateVars, dispatchVars, poolVars, vaultVars,
                   tailVars>>

\* transporter.verify() settles: it resolves ("accepted"), or it rejects
\* because the server refused the login ("rejected") or because of a
\* connection error or a timeout ("error").  catch and finally run,
\* testEmailConnection returns and POST answers.
VerifySettled(res) ==
    /\ postPc = "verify"
    /\ verifyOutcome' = res
    /\ transporter' = finallyClose(transporter, res = "accepted")
    /\ isValid' = IF res = "accepted" THEN "true" ELSE "false"
    /\ postResponse' =
         IF res = "accepted"
         THEN JsonResponse(200, "true", "")
         ELSE JsonResponse(401, "false", AuthFailedMessage(postRequest.body.email))
    /\ postPc' = "done"
    /\ UNCHANGED <<postRequest, postStages, rateLimitCheck,
                   rateVars, dispatchVars, poolVars, vaultVars,
                   tailVars>>

\* GET, PUT and DELETE of the same route
MethodNotAllowed(method) ==
    /\ postPc \in {"idle", "done"}
    /\ postRequest' = [NoPostRequest EXCEPT !.method = method]
    /\ postStages' = <<>>
    /\ rateLimitCheck' = NoCheck
    /\ transporter' = "null"
    /\ verifyOutcome' = "none"
    /\ isValid' = "none"
    /\ postResponse' = [NoPostResponse EXCEPT !.status = 405,
                                              !.error = "Method not allowed"]
    /\ postPc' = "done"
    /\ UNCHANGED <<rateVars, dispatchVars, poolVars, vaultVars,
                   tailVars>>

PostBodies ==
    {[NoBody EXCEPT !.json = "invalid"], [NoBody EXCEPT !.json = "null"]}
    \cup [json : {"object"}, email : {ADDR_GMAIL, ADDR_EDU, ADDR_OTHER, ADDR_DOTTED},
          appPassword : {SECRET_PLAIN}]
    \cup {[json |-> "object", email |-> ADDR_GMAIL, appPassword |-> SECRET_SHORT],
          [json |-> "object", email |-> <<>>, appPassword |-> SECRET_PLAIN]}

PostRequests ==
    {r \in [method : {"POST"}, ip : Clients,
            nodeEnv : {"production", "development"}, https : BOOLEAN,
            body : PostBodies] :
        r.nodeEnv = "development" => ~r.https}

NextValidate ==
    \/ \E r \in PostRequests : PostReceived(r)
    \/ PostBodyRead
    \/ \E res \in {"accepted", "rejected", "error"} : VerifySettled(res)
    \/ \E method \in {"GET", "PUT", "DELETE"} : MethodNotAllowed(method)
    \/ RateTick

SpecValidate == Init /\ [][NextValidate]_vars

(***************************************************************************)
(* The vault's callers and its environment.                                *)
(***************************************************************************)
\* History of generateSessionPassword: password was derived in this load.
Derive(password) ==
    /\ derivedIn' = [derivedIn EXCEPT ![pageLoad] = password]
    /\ sameWithinLoad' = (sameWithinLoad /\ derivedIn[pageLoad] \in {<<>>, password})

\* History: what the operation before the next one was.
Precedes ==
    prevOp' = IF vaultOp.op = "clear" THEN "clear"
              ELSE IF vaultOp.op = "store" /\ ~vaultOp.threw THEN "store"
              ELSE "other"

\* encryptCredentials(email, appPassword) runs in the tab.
encryptCredentialsCalled(email, appPassword) ==
    \E salt \in RandomBytes, iv \in RandomBytes, sessionEntropy \in RandomBytes,
       t1 \in {dateNow, dateNow + KdfMs} \cap Instants :
       LET e == encryptCredentials(email, appPassword, dateNow, t1, salt, iv,
                                   sessionEntropy)
       IN
       /\ vaultOp' = [NoVaultOp EXCEPT !.op = "store", !.threw = e.threw]
       /\ Precedes
       /\ IF e.threw
          THEN UNCHANGED <<dateNow, sessionStorage, derivedIn, sameWithinLoad>>
          ELSE /\ dateNow' = t1
               /\ sessionStorage' = [sessionStorage EXCEPT ![STORAGE_KEY] = e.item]
               /\ Derive(generateSessionPassword(sessionEntropy))
       /\ UNCHANGED pageLoad

\* A caller awaits encryptCredentials(email, appPassword).
Store(email, appPassword) ==
    /\ encryptCredentialsCalled(email, appPassword)
    /\ UNCHANGED <<dispatchVars, poolVars, rateVars, stageVars, tailVars>>

\* decryptCredentials() runs in the tab.
decryptCredentialsCalled ==
    \E sessionEntropy \in RandomBytes,
       t1 \in {dateNow, dateNow + KdfMs} \cap Instants :
       LET item == sessionStorage[STORAGE_KEY]
           d == decryptCredentials(item, sessionEntropy, dateNow, t1)
           derives == item.kind = "envelope"
                         /\ ~(dateNow - item.timestamp > SESSION_TIMEOUT)
           after == IF d.cleared THEN clearCredentials(sessionStorage)
                    ELSE sessionStorage
       IN
       /\ derives \/ t1 = dateNow
       /\ sessionStorage' = after
       /\ vaultOp' = [op |-> "retrieve", load |-> pageLoad, before |-> item,
                      value |-> d.value, threw |-> d.threw,
                      changed |-> after # sessionStorage, t0 |-> dateNow,
                      t1 |-> t1]
       /\ Precedes
       /\ dateNow' = t1
       /\ IF derives
          THEN Derive(generateSessionPassword(sessionEntropy))
          ELSE UNCHANGED <<derivedIn, sameWithinLoad>>
       /\ UNCHANGED pageLoad

\* A caller awaits decryptCredentials().
Retrieve ==
    /\ decryptCredentialsCalled
    /\ UNCHANGED <<dispatchVars, poolVars, rateVars, stageVars, tailVars>>

\* clearCredentials() is called (logout).
Clear ==
    /\ sessionStorage' = clearCredentials(sessionStorage)
    /\ vaultOp' = [NoVaultOp EXCEPT !.op = "clear", !.load = pageLoad,
                      !.before = sessionStorage[STORAGE_KEY],
                      !.changed = clearCredentials(sessionStorage) # sessionStorage]
    /\ Precedes
    /\ UNCHANGED <<dateNow, pageLoad, derivedIn, sameWithinLoad,
                   dispatchVars, poolVars, rateVars, stageVars,
                   tailVars>>

\* Something else with access to the tab's session storage (another script
\* of the origin, the developer tools) rewrites the item under STORAGE_KEY:
\* text that is not JSON, the empty string, the envelope with its
\* ciphertext altered or its timestamp set to now, or an envelope found
\* under another key of the storage.
Tamper(how) ==
    LET item == sessionStorage[STORAGE_KEY] IN
    /\ vaultOp.op # "tamper"
    /\ \/ /\ how = "garbage"
          /\ sessionStorage' = [sessionStorage EXCEPT ![STORAGE_KEY] =
                                   [NoItem EXCEPT !.kind = "garbage"]]
       \/ /\ how = "empty"
          /\ sessionStorage' = [sessionStorage EXCEPT ![STORAGE_KEY] =
                                   [NoItem EXCEPT !.kind = "empty"]]
       \/ /\ how = "altered"
          /\ item.kind = "envelope"
          /\ sessionStorage' = [sessionStorage EXCEPT
                                   ![STORAGE_KEY].encryptedData.tag = "invalid"]
       \/ /\ how = "postdated"
          /\ item.kind = "envelope"
          /\ sessionStorage' = [sessionStorage EXCEPT
                                   ![STORAGE_KEY].timestamp = dateNow]
       \/ /\ how = "copied"
          /\ \E k \in StorageKeys :
                /\ k # STORAGE_KEY
                /\ sessionStorage[k].kind = "envelope"
                /\ sessionStorage' = [sessionStorage EXCEPT
                                         ![STORAGE_KEY] = sessionStorage[k]]
    /\ vaultOp' = [NoVaultOp EXCEPT !.op = "tamper"]
    /\ Precedes
    /\ UNCHANGED <<dateNow, pageLoad, derivedIn, sameWithinLoad,
                   dispatchVars, poolVars, rateVars, stageVars,
                   tailVars>>

\* The page is reloaded in its tab.  The 'beforeunload' listener
\* (clearCredentials) runs if the browser fires the event, which it does
\* not always do; the module is then loaded anew.  Session storage
\* outlives the reload.
Reload(fired) ==
    /\ pageLoad < MaxPageLoads
    /\ sessionStorage' = IF fired THEN clearCredentials(sessionStorage)
                         ELSE sessionStorage
    /\ pageLoad' = pageLoad + 1
    /\ vaultOp' = [NoVaultOp EXCEPT !.op = "reload"]
    /\ Precedes
    /\ UNCHANGED <<dateNow, derivedIn, sameWithinLoad,
                   dispatchVars, poolVars, rateVars, stageVars,
                   tailVars>>

\* Time passes in the browser.
VaultTick ==
    /\ \E t \in Instants : t > dateNow /\ dateNow' = t
    /\ UNCHANGED <<pageLoad, sessionStorage, vaultOp, prevOp, derivedIn,
                   sameWithinLoad, dispatchVars, poolVars, rateVars, stageVars,
                   tailVars>>

\* The arguments encryptCredentials is called with: an address and a secret
\* in normal form, the same as typed (a leading blank, a capital, blanks
\* in the secret), a foreign address, a secret one character short.
StoreInputs ==
    {<<ADDR_GMAIL, SECRET_PLAIN>>, <<ADDR_TYPED, SECRET_SPACED>>,
     <<ADDR_OTHER, SECRET_PLAIN>>, <<ADDR_GMAIL, SECRET_SHORT>>}

\* The vault within one page load.
NextVault ==
    \/ \E in \in StoreInputs : Store(in[1], in[2])
    \/ Retrieve
    \/ Clear
    \/ \E how \in {"garbage", "empty", "altered", "postdated"} : Tamper(how)
    \/ VaultTick

SpecVault == Init /\ [][NextVault]_vars

\* The arguments of encryptCredentials across reloads: a credential as
\* typed, and one that is refused.
ReloadInputs ==
    {<<ADDR_TYPED, SECRET_SPACED>>, <<ADDR_GMAIL, SECRET_SHORT>>}

\* The vault across reloads of the page.
NextReload ==
    \/ \E in \in ReloadInputs : Store(in[1], in[2])
    \/ Retrieve
    \/ Clear
    \/ Tamper("copied")
    \/ \E fired \in BOOLEAN : Reload(fired)

SpecReload == Init /\ [][NextReload]_vars

(***************************************************************************)
(* The wizard in the browser: login, the batch-send button, and the saved  *)
(* wizard session.  A request is recorded with the credential fields of    *)
(* its body; a saved field with the sources its value was computed from    *)
(* (the credential's sources are "address" and "secret").                  *)
(***************************************************************************)
VALIDATE_URL == "/api/validate-gmail-credentials"
SEND_URL == "/api/send-certificates"

\* A validation request sent to an endpoint of its own.
ValidationRequest_elsewhere(email, appPassword) ==
    [url |-> "/api/check-credentials", email |-> toLowerCase(trim(email)),
     appPassword |-> removeWhitespace(appPassword)]

\* The request validateCredentials makes: fetch(VALIDATE_URL, { method:
\* 'POST', body: JSON.stringify({ email, appPassword }) })
ValidationRequest(email, appPassword) ==
    [url |-> VALIDATE_URL, email |-> toLowerCase(trim(email)),
     appPassword |-> removeWhitespace(appPassword)]

\* validateCredentials up to its fetch: the client-side format test
ClientFormatValid(email, appPassword) ==
    /\ emailRegex(trim(email))
    /\ Len(removeWhitespace(appPassword)) = 16
    /\ alnumRegex(removeWhitespace(appPassword))

\* The request sendEmailsOnly makes: credentials is null (NoCredential)
\* unless the provider is gmail
SendRequest(credentials) ==
    [url |-> SEND_URL, email |-> credentials.email,
     appPassword |-> credentials.appPassword]

\* The answers the validation endpoint can give to the request of a login
\* ("networkError": fetch rejects).
ValidationAnswers == {"ok", "unauthorized", "rateLimited", "serverError", "networkError"}

\* A validateCredentials that trusts every answer.
validateCredentials_always(email, appPassword, answer) ==
    email # <<>> /\ appPassword # <<>> /\ ClientFormatValid(email, appPassword)

\* What validateCredentials returns: result.success of the answer, false
\* when the format test fails or anything throws
validateCredentials(email, appPassword, answer) ==
    ClientFormatValid(email, appPassword) /\ answer = "ok"

\* login(email, appPassword) of useCredentials, the validation endpoint
\* answering its request (if one is made) with answer.
Login(email, appPassword, answer) ==
    LET asked == email # <<>> /\ appPassword # <<>>
                    /\ ClientFormatValid(email, appPassword)
        valid == email # <<>> /\ appPassword # <<>>
                      /\ validateCredentials(email, appPassword, answer)
    IN
    /\ fetched' = IF asked THEN fetched \cup {ValidationRequest(email, appPassword)}
                  ELSE fetched
    /\ IF valid
       THEN /\ encryptCredentialsCalled(email, appPassword)
            /\ hookState' = IF vaultOp'.threw THEN NoHookState
                            ELSE [isAuthenticated |-> TRUE,
                                  email |-> toLowerCase(trim(email))]
       ELSE UNCHANGED <<vaultVars, hookState>>
    /\ lastLogin' = [answer |-> IF asked THEN answer ELSE "notAsked",
                     storeCalled |-> valid,
                     vaultChanged |-> vaultVars' # vaultVars]
    /\ UNCHANGED <<localStorage, signals, logoOnDisk, sendUi, dispatchVars,
                   poolVars, rateVars, stageVars>>

\* checkCredentials() of useCredentials (on mount, and after the prompt)
CheckCredentials ==
    /\ decryptCredentialsCalled
    /\ hookState' = IF vaultOp'.value # NoCredential
                    THEN [isAuthenticated |-> TRUE, email |-> vaultOp'.value.email]
                    ELSE NoHookState
    /\ UNCHANGED <<fetched, localStorage, signals, logoOnDisk, sendUi, lastLogin,
                   dispatchVars, poolVars, rateVars, stageVars>>

\* logout() of useCredentials
Logout ==
    /\ sessionStorage' = clearCredentials(sessionStorage)
    /\ vaultOp' = [NoVaultOp EXCEPT !.op = "clear", !.load = pageLoad,
                      !.before = sessionStorage[STORAGE_KEY],
                      !.changed = clearCredentials(sessionStorage) # sessionStorage]
    /\ Precedes
    /\ hookState' = NoHookState
    /\ UNCHANGED <<dateNow, pageLoad, derivedIn, sameWithinLoad, fetched,
                   localStorage, signals, logoOnDisk, sendUi, lastLogin,
                   dispatchVars, poolVars, rateVars, stageVars>>

\* The 'storage' listener of setupSecurityEventHandlers runs for an event
\* e: if (e.key === STORAGE_KEY && !e.newValue) clearCredentials()
StorageEvent(keyMatches, newValue) ==
    /\ IF keyMatches /\ ~newValue
       THEN /\ sessionStorage' = clearCredentials(sessionStorage)
            /\ vaultOp' = [NoVaultOp EXCEPT !.op = "storage", !.load = pageLoad,
                              !.before = sessionStorage[STORAGE_KEY],
                              !.changed =
                                 clearCredentials(sessionStorage) # sessionStorage]
            /\ Precedes
       ELSE UNCHANGED <<sessionStorage, vaultOp, prevOp>>
    /\ UNCHANGED <<dateNow, pageLoad, derivedIn, sameWithinLoad, tailVars,
                   dispatchVars, poolVars, rateVars, stageVars>>

\* sendEmailsOnly() from its entry to `await decryptCredentials()` (or to
\* the fetch when the provider is not gmail): the test for certificates,
\* hasValidCredentials(), the test that opens the credential prompt, and
\* setIsSendingMail(true); setEmailStatus("sending").
SendEmailsOnly(emailProvider, hasCertificates) ==
    /\ sendUi.pc = "idle"
    /\ IF ~hasCertificates
       THEN /\ sendUi' = [sendUi EXCEPT !.returned = "alert"]
            /\ UNCHANGED vaultVars
       ELSE /\ decryptCredentialsCalled
            /\ sendUi' =
                 IF emailProvider = "gmail" /\ ~hookState.isAuthenticated
                    /\ vaultOp'.value = NoCredential
                 THEN [sendUi EXCEPT !.showDevNav = TRUE, !.returned = "prompt"]
                 ELSE [sendUi EXCEPT !.pc = "credentials",
                                     !.emailProvider = emailProvider,
                                     !.isSendingMail = TRUE,
                                     !.emailStatus = "sending",
                                     !.returned = "none"]
    /\ UNCHANGED <<fetched, localStorage, signals, logoOnDisk, hookState,
                   lastLogin, dispatchVars, poolVars, rateVars, stageVars>>

\* sendEmailsOnly inside its try block up to the fetch: for gmail the
\* credential is taken from the vault, and without one the prompt is
\* opened and the function returns through its finally block.
SendCredentialsRead ==
    /\ sendUi.pc = "credentials"
    /\ IF sendUi.emailProvider = "gmail"
       THEN /\ decryptCredentialsCalled
            /\ IF vaultOp'.value = NoCredential
               THEN /\ sendUi' = [sendUi EXCEPT !.pc = "idle", !.showDevNav = TRUE,
                                                !.isSendingMail = FALSE,
                                                !.returned = "promptInTry"]
                    /\ UNCHANGED fetched
               ELSE /\ sendUi' = [sendUi EXCEPT !.pc = "fetch"]
                    /\ fetched' = fetched \cup {SendRequest(vaultOp'.value)}
       ELSE /\ sendUi' = [sendUi EXCEPT !.pc = "fetch"]
            /\ fetched' = fetched \cup {SendRequest(NoCredential)}
            /\ UNCHANGED vaultVars
    /\ UNCHANGED <<localStorage, signals, logoOnDisk, hookState, lastLogin,
                   dispatchVars, poolVars, rateVars, stageVars>>

\* The batch-send request settles: result.success, or not, or a throw;
\* finally setIsSendingMail(false).
SendResponded(result) ==
    /\ sendUi.pc = "fetch"
    /\ sendUi' = [sendUi EXCEPT !.pc = "idle", !.isSendingMail = FALSE,
                                !.emailProvider = "",
                                !.emailStatus = IF result = "success"
                                                THEN "success" ELSE "error",
                                !.returned = "requested"]
    /\ UNCHANGED <<fetched, localStorage, signals, logoOnDisk, hookState,
                   lastLogin, vaultVars, dispatchVars, poolVars, rateVars,
                   stageVars>>

\* generateCertificates() starts: setEmailStatus("idle")
GenerateCertificates ==
    /\ sendUi.pc = "idle"
    /\ sendUi.emailStatus # "idle"
    /\ sendUi' = [sendUi EXCEPT !.emailStatus = "idle", !.returned = "none"]
    /\ UNCHANGED <<fetched, localStorage, signals, logoOnDisk, hookState,
                   lastLogin, vaultVars, dispatchVars, poolVars, rateVars,
                   stageVars>>

\* What the three callers of saveSession pass to it.
SessionDataOf(caller) ==
    IF caller = "page"
    THEN {<<"currentStep", {"wizard"}>>, <<"templateImage", {"template"}>>,
          <<"fields", {"wizard"}>>, <<"csvData", {"roster"}>>}
    ELSE IF caller = "csv"
    THEN {<<"csvData", {"roster"}>>, <<"csvHeaders", {"roster"}>>,
          <<"fieldMapping", {"roster", "wizard"}>>}
    ELSE {<<"generatedCertificates", {"roster", "template", "wizard"}>>}

\* saveSession(data): { ...existing, ...data, timestamp: Date.now() }
saveSession(existing, data) ==
    {p \in existing : p[1] \notin {q[1] : q \in data} \cup {"timestamp"}}
       \cup data \cup {<<"timestamp", {"clock"}>>}

\* A caller saves the wizard session.
SaveSession(caller) ==
    /\ localStorage' = saveSession(localStorage, SessionDataOf(caller))
    /\ UNCHANGED <<fetched, signals, logoOnDisk, uiVars, vaultVars, dispatchVars,
                   poolVars, rateVars, stageVars>>

\* The arguments login is called with: a credential with a leading
\* blank, a capital and blanks in the secret, and a secret one character
\* short.
LoginInputs ==
    {<<ADDR_TYPED, SECRET_SPACED>>, <<ADDR_GMAIL, SECRET_SHORT>>}

\* What leaves the browser and what is saved in it: logins, sends up to
\* their request, saves of the wizard session.
NextClient ==
    \/ Login(ADDR_TYPED, SECRET_SPACED, "ok")
    \/ \E emailProvider \in Providers : SendEmailsOnly(emailProvider, TRUE)
    \/ SendCredentialsRead
    \/ \E caller \in {"page", "csv", "generate"} : SaveSession(caller)

SpecClient == Init /\ [][NextClient]_vars

\* Logins, each answered in one of the ways the endpoint can answer.
NextLogin ==
    \/ \E in \in LoginInputs, answer \in ValidationAnswers :
          Login(in[1], in[2], answer)
    \/ Logout
    \/ VaultTick

SpecLogin == Init /\ [][NextLogin]_vars

\* The generation step in its tab: the hook, the listener, the Send button.
NextTab ==
    \/ Login(ADDR_TYPED, SECRET_SPACED, "ok")
    \/ CheckCredentials
    \/ \E keyMatches \in BOOLEAN, newValue \in BOOLEAN :
          StorageEvent(keyMatches, newValue)
    \/ \E emailProvider \in Providers, hasCertificates \in BOOLEAN :
          SendEmailsOnly(emailProvider, hasCertificates)
    \/ SendCredentialsRead
    \/ \E result \in {"success", "failure", "throw"} : SendResponded(result)
    \/ GenerateCertificates

SpecTab == Init /\ [][NextTab]_vars


(***************************************************************************)
(* Pooled batches started by callers of sendBulkCertificatesPooled.        *)
(***************************************************************************)
NextPool ==
    \/ \E b \in Batches, n \in 0..MaxRecipients, c \in Credentials \cup {NoCred} :
          CallPooled(b, n, c)
    \/ \E p \in 1..MaxBatches : IdleEvent(p)
    \/ RunListener
    \/ \E b \in Batches, r \in 1..MaxRecipients, ok \in BOOLEAN :
          SendMailComplete(b, r, ok)

SpecPool == Init /\ [][NextPool]_vars

\* Pooled batches run one after the other.
NextPoolSerial ==
    \/ \E b \in Batches, n \in 0..MaxRecipients, c \in Credentials \cup {NoCred} :
          CallPooledAlone(b, n, c)
    \/ \E p \in 1..MaxBatches : IdleEvent(p)
    \/ RunListener
    \/ \E b \in Batches, r \in 1..MaxRecipients, ok \in BOOLEAN :
          SendMailComplete(b, r, ok)

SpecPoolSerial == Init /\ [][NextPoolSerial]_vars

(***************************************************************************)
(* Fairness for the pooled batches: the event loop runs every callback     *)
(* that is due, every send that was accepted by the pool settles, and an   *)
(* open pool with a free slot goes on emitting 'idle'.                     *)
(***************************************************************************)
FairSpecPoolSerial ==
    /\ SpecPoolSerial
    /\ \A p \in 1..MaxBatches : WF_vars(IdleEvent(p))
    /\ WF_vars(RunListener)
    /\ \A b \in Batches, r \in 1..MaxRecipients :
          WF_vars(\E ok \in BOOLEAN : SendMailComplete(b, r, ok))

(***************************************************************************)
(* The life of the pooled transporter in the server process: pooled        *)
(* batches one after the other, a sequential send, and the signals.  A     *)
(* handler registered for SIGTERM or SIGINT replaces the default           *)
(* termination, so the process runs on after it.                           *)
(***************************************************************************)
\* A handler that drops the reference and leaves the pool open.
shutdownHandler_noClose(ref, ps) == [pooledEmailTransporter |-> 0, pools |-> ps]

\* shutdownHandler: if (pooledEmailTransporter) { close(); = null }
shutdownHandler(ref, ps) ==
    IF ref # 0
    THEN [pooledEmailTransporter |-> 0, pools |-> [ps EXCEPT ![ref].closed = TRUE]]
    ELSE [pooledEmailTransporter |-> ref, pools |-> ps]

\* The process receives SIGTERM or SIGINT; the handler runs as a segment
\* of its own, between two other callbacks.
Shutdown(sig) ==
    /\ emitting = <<>>
    /\ Len(signals) < MaxSignals
    /\ signals' = Append(signals, sig)
    /\ pooledEmailTransporter' =
          shutdownHandler(pooledEmailTransporter, pools).pooledEmailTransporter
    /\ pools' = shutdownHandler(pooledEmailTransporter, pools).pools
    /\ UNCHANGED <<bState, bArgs, queuedRecipients, sentCount, results, inflight,
                   emitting, issued, closeCalls>>
    /\ UNCHANGED <<dispatchVars, rateVars, stageVars, vaultVars, fetched,
                   localStorage, logoOnDisk, uiVars>>

\* Time passes until the 500 ms timer of the sequential loop is due.
TickToTimer ==
    /\ seqPc = "delay"
    /\ ~TimerFired(timerStart, now)
    /\ Tick

NextLifecycle ==
    \/ \E b \in Batches, n \in 0..1, c \in {GmailCred, NoCred} :
          CallPooledAlone(b, n, c)
    \/ \E p \in 1..MaxBatches : IdleEvent(p)
    \/ RunListener
    \/ \E b \in Batches, r \in 1..MaxRecipients, ok \in BOOLEAN :
          SendMailComplete(b, r, ok)
    \/ CallSendBulkCertificates(1, "gmail", "sequential", GmailCred)
    \/ \E env \in {"accepted", "thrown"} : SeqResolve(env)
    \/ SeqDelayElapsed
    \/ TickToTimer
    \/ \E sig \in {"SIGTERM", "SIGINT"} : Shutdown(sig)

SpecLifecycle == Init /\ [][NextLifecycle]_vars

(***************************************************************************)
(* Direct-submission sends in a deployment that may lack the logo asset    *)
(* (the path is relative to the working directory of the process).         *)
(***************************************************************************)
InitLogo ==
    /\ InitDispatch /\ InitPool /\ InitRate /\ InitStage /\ InitVault
    /\ InitClientProcess
    /\ logoOnDisk \in BOOLEAN

NextLogo ==
    \/ \E n \in 1..MaxRecipients, sendingMode \in {"sequential", "pooled"} :
          CallSendBulkCertificates(n, "gmail", sendingMode, GmailCred)
    \/ \E env \in {"accepted", "thrown", "noLogo"} : SeqResolve(env)
    \/ SeqDelayElapsed
    \/ TickToTimer
    \/ \E p \in 1..MaxBatches : IdleEvent(p)
    \/ RunListener
    \/ \E b \in Batches, r \in 1..MaxRecipients, ok \in BOOLEAN :
          SendMailComplete(b, r, ok)
    \/ PooledReturn

SpecLogo == InitLogo /\ [][NextLogo]_vars

(***************************************************************************)
(* Properties.                                                             *)
(***************************************************************************)

\* C1: when sendBulkCertificates returns from its sequential loop, each of
\* the N recipients was attempted exactly once and in input order, there are
\* exactly N results, the i-th being that of recipient i, and a result is
\* marked success exactly when the backend accepted that recipient's message
\* (a failed send is success=false for that recipient only).
C1_SequentialContract ==
    (strategy = "sequential" /\ outcome.state = "returned") =>
        /\ Len(attempts) = call.n
        /\ Len(seqResults) = call.n
        /\ \A i \in 1..call.n :
              /\ attempts[i].rcpt = i
              /\ seqResults[i].rcpt = i
              /\ seqResults[i].success <=>
                    \E k \in 1..Len(wire) : wire[k].rcpt = i /\ wire[k].accepted

\* C2: no recipient's sendMail is ever issued twice, and when the promise of
\* sendBulkCertificatesPooled is resolved the results hold exactly one entry
\* for each recipient of the batch, each send having been issued once.
C2_PooledOneResultEach ==
    /\ \A b \in Batches, r \in 1..MaxRecipients : issued[b][r] <= 1
    /\ \A b \in Batches :
          bState[b] = "resolved" =>
             /\ Len(results[b]) = bArgs[b].n
             /\ \A r \in 1..bArgs[b].n :
                   /\ issued[b][r] = 1
                   /\ Cardinality({i \in 1..Len(results[b]) :
                                      results[b][i].rcpt = r}) = 1

\* C2 witness: a batch of two resolved with its results in completion
\* order, the second recipient's failed send recorded first.
C2_Witness ==
    \E b \in Batches :
       /\ bState[b] = "resolved" /\ bArgs[b].n = 2
       /\ results[b][1].rcpt = 2 /\ ~results[b][1].success
       /\ results[b][2].success

\* C3: a step in which a batch's handler calls close(), or in which the
\* batch's promise is resolved, leaves every recipient of that batch with a
\* recorded result, none queued and none in flight.
C3_CloseOnlyWhenDone ==
    [][\A b \in Batches :
          (closeCalls'[b] > closeCalls[b]
             \/ (bState[b] # "resolved" /\ bState'[b] = "resolved")) =>
          /\ Len(results'[b]) = bArgs[b].n
          /\ queuedRecipients'[b] = <<>>
          /\ ~\E x \in inflight' : x.b = b]_vars

\* C3 witness: a batch of two has closed its pool, once.
C3_Witness ==
    \E b \in Batches :
       /\ closeCalls[b] = 1 /\ bArgs[b].n = 2
       /\ pools[bArgs[b].pool].closed
       /\ Len(results[b]) = 2

\* C4: every batch that sendBulkCertificatesPooled has started is
\* eventually resolved, a batch started after an earlier one has completed
\* included (the sends that are issued all settle, by fairness).
C4_PooledBatchCompletes ==
    \A b \in Batches : (bState[b] = "running") ~> (bState[b] = "resolved")

\* C5: for gmail the strategy executed is the override when one is given,
\* otherwise pooled from 50 recipients on and sequential below; for resend
\* it is sequential whatever the count and the override.
C5_StrategySelection ==
    strategy # "none" =>
        IF call.provider = "gmail"
        THEN strategy = IF call.sendingMode # "undefined" THEN call.sendingMode
                        ELSE IF call.n >= 50 THEN "pooled" ELSE "sequential"
        ELSE strategy = "sequential"

\* C5 witness: exactly 50 recipients, no override, gmail: pooled.
C5_Witness ==
    /\ strategy = "pooled" /\ call.n = 50
    /\ call.sendingMode = "undefined" /\ call.provider = "gmail"

\* C6: a gmail batch called without credentials fails as a whole: the call
\* throws, no recipient is attempted and no result is produced.
C6_CredentialRequired ==
    (call.via # "none" /\ call.provider = "gmail" /\ call.credentials = NoCred) =>
        /\ outcome.state = "threw"
        /\ attempts = <<>>
        /\ seqResults = <<>>
        /\ results[1] = <<>>

\* C7: the credentials in the body of a gmail batch-send request are the
\* credentials sendBulkCertificates is called with.
C7_CredentialReachesDispatcher ==
    (call.via = "route" /\ request.provider = "gmail"
        /\ request.credentials # NoCred) =>
        call.credentials = request.credentials

\* C8: recipients are attempted in input order, and an attempt begins only
\* when the one before it has resolved and 500 ms have passed since; the
\* function returns only 500 ms after its last attempt resolved.
C8_SequentialOrdering ==
    /\ \A i \in 1..Len(attempts) :
          /\ attempts[i].rcpt = i
          /\ i > 1 =>
                /\ attempts[i - 1].end >= attempts[i - 1].start
                /\ attempts[i].start >= attempts[i - 1].end + 500
    /\ (strategy = "sequential" /\ outcome.state = "returned" /\ call.n > 0) =>
          /\ attempts[call.n].end >= attempts[call.n].start
          /\ now >= attempts[call.n].end + 500

\* C8 witness: a second attempt has begun after a first one that took time.
C8_Witness ==
    /\ Len(attempts) = 2
    /\ attempts[1].end > attempts[1].start
    /\ attempts[2].start >= attempts[1].end + 500

\* C9: of the attempts a client makes inside one 15-minute window the first
\* five pass the rate check and reach the later stages, the sixth and later
\* ones are answered 429 with the window's reset time; the first attempt
\* after the reset time opens a new window and passes.
C9_RateLimiter ==
    lastAttempt.checked =>
        LET w == windowLog[lastAttempt.ip] IN
        /\ w.n <= 5 =>
              /\ lastAttempt.status # 429
              /\ lastAttempt.kind = "authOk" => lastAttempt.status = 200
              /\ lastAttempt.kind = "authFail" => lastAttempt.status = 401
        /\ w.n >= 6 =>
              /\ lastAttempt.status = 429
              /\ lastAttempt.resetTime = w.first + 900000

\* C9 witness: a client that was rate-limited in its previous window is
\* let through to the live check by its first attempt after the reset time.
C9_Witness ==
    /\ lastAttempt.checked /\ lastAttempt.status = 200
    /\ windowLog[lastAttempt.ip].n = 1
    /\ windowLog[lastAttempt.ip].prevFull

\* The count of the client's current window before the last attempt: an
\* absent or expired entry counts as 0.
CountBefore ==
    IF lastAttempt.before = NoEntry
       \/ lastAttempt.at > lastAttempt.before.resetTime
    THEN 0
    ELSE lastAttempt.before.count

\* C10 (as stated): every attempt that reaches the rate check increments
\* the client's counter by one, whatever its outcome, a rate-limited one
\* included.
C10_EveryAttemptIncrements ==
    lastAttempt.checked => lastAttempt.after.count = CountBefore + 1

\* C10 (amended): every attempt that passes the rate check increments the
\* client's counter by one, whatever its later outcome (malformed body or
\* format, authentication failed, succeeded); an attempt rejected as
\* rate-limited leaves the client's entry unchanged.
C10_PassedAttemptCounted ==
    lastAttempt.checked =>
        IF lastAttempt.status = 429
        THEN lastAttempt.after = lastAttempt.before
        ELSE lastAttempt.after.count = CountBefore + 1

\* C10 witness: an attempt that failed authentication was counted as the
\* third of its window.
C10_Witness ==
    /\ lastAttempt.checked /\ lastAttempt.status = 401
    /\ lastAttempt.before.count = 2 /\ lastAttempt.after.count = 3

(***************************************************************************)
(* The validation endpoint, stage by stage (SpecValidate).                 *)
(***************************************************************************)
\* The four checks of the handler the request being served has made so far.
StagesMade ==
    SelectSeq(postStages, LAMBDA x : x \in {"transport", "rate", "format", "live"})

\* C11: the checks of a validation request are made in the order transport,
\* rate, format, live; a request on plain http in production stops at the
\* transport check, a rate-limited one at the rate check, one with
\* ill-formed fields at the format check, and for none of the three a
\* transporter to the mail server is created.
C11_StagesInOrder ==
    LET order == <<"transport", "rate", "format", "live">>
        made == StagesMade
        body == postRequest.body
    IN
    postRequest.method = "POST" =>
       /\ made = SubSeq(order, 1, Len(made))
       /\ (postRequest.nodeEnv = "production" /\ ~postRequest.https)
             => made = <<"transport">> /\ transporter = "null"
       /\ (rateLimitCheck.checked /\ ~rateLimitCheck.allowed)
             => made = <<"transport", "rate">> /\ transporter = "null"
       /\ (body.json = "object" /\ ~validateInput(body.email, body.appPassword).valid)
             => /\ made \in {<<"transport">>, <<"transport", "rate">>,
                             <<"transport", "rate", "format">>}
                /\ transporter = "null"

\* A request with an ill-formed secret was answered at the format check.
C11_Witness ==
    /\ postPc = "done"
    /\ postRequest.body.json = "object"
    /\ postRequest.body.appPassword = SECRET_SHORT
    /\ StagesMade = <<"transport", "rate", "format">>
    /\ transporter = "null"
    /\ postResponse.status = 400

\* C12: when testEmailConnection has returned, the transporter it created
\* has been closed, however verify() settled; a transporter is open only
\* while verify() is awaited.
C12_ConnectionTornDown ==
    /\ isValid # "none" => transporter = "closed"
    /\ transporter = "open" => postPc = "verify"

\* testEmailConnection returned false after a connection error, its
\* transporter closed.
C12_Witness ==
    /\ verifyOutcome = "error"
    /\ isValid = "false"
    /\ transporter = "closed"

\* C13: the answer to a POST is 200 with success true exactly when the
\* live check accepted the credential; 400 for ill-formed fields; 401 when
\* the live check failed; 429 with the client's window reset time when
\* rate-limited; 500 for an unexpected exception; and every answer other
\* than 200 has success false and an error message.
C13_OutcomeToResponse ==
    LET body == postRequest.body
        made == StagesMade
    IN
    (postRequest.method = "POST" /\ postPc = "done") =>
       /\ (postResponse.status = 200 /\ postResponse.success = "true")
             <=> verifyOutcome = "accepted"
       /\ postResponse.success = "true" => postResponse.status = 200
       /\ ("format" \in {made[i] : i \in 1..Len(made)}
              /\ ~validateInput(body.email, body.appPassword).valid)
             => postResponse.status = 400
       /\ verifyOutcome \in {"rejected", "error"} => postResponse.status = 401
       /\ (rateLimitCheck.checked /\ ~rateLimitCheck.allowed)
             => /\ postResponse.status = 429
                /\ DateParse(postResponse.resetTime)
                      = rateLimitStore[postRequest.ip].resetTime
       /\ (body.json = "null" /\ Len(postStages) > 2) => postResponse.status = 500
       /\ postResponse.status \in {200, 400, 401, 429, 500}
       /\ postResponse.status # 200
             => postResponse.success = "false" /\ postResponse.error # ""

\* A rate-limited request was answered 429 with the reset time of a window
\* opened earlier.
C13_Witness ==
    /\ postPc = "done"
    /\ postResponse.status = 429
    /\ postResponse.success = "false"
    /\ DateParse(postResponse.resetTime) = rateLimitStore[postRequest.ip].resetTime
    /\ rateNow > 0
    /\ rateNow < rateLimitStore[postRequest.ip].resetTime

\* C14 as stated: a store and then a retrieve, in the same page load and
\* within the hour, returns a credential equal to the arguments of store.
C14_RoundTripEqual ==
    LET w == vaultOp.before.written IN
    (/\ vaultOp.op = "retrieve" /\ prevOp = "store"
     /\ w.load = vaultOp.load
     /\ vaultOp.t1 - w.at <= SESSION_TIMEOUT)
       => /\ vaultOp.value.email = w.email
          /\ vaultOp.value.appPassword = w.appPassword

\* C14: a store of an accepted pair and then a retrieve, in the same page
\* load and completed no more than an hour after store was called, returns
\* the credential in normal form: the address trimmed and in lower case,
\* the secret without its whitespace, captured when store was called.
C14_RoundTripNormalised ==
    LET w == vaultOp.before.written IN
    (/\ vaultOp.op = "retrieve" /\ prevOp = "store"
     /\ w.load = vaultOp.load
     /\ vaultOp.t1 - w.at <= SESSION_TIMEOUT)
       => /\ vaultOp.value = [email |-> toLowerCase(trim(w.email)),
                              appPassword |-> removeWhitespace(w.appPassword),
                              timestamp |-> w.at]
          /\ vaultOp.value # NoCredential
          /\ ~vaultOp.threw

\* A credential stored as typed came back in normal form.
C14_Witness ==
    /\ vaultOp.op = "retrieve" /\ prevOp = "store"
    /\ vaultOp.before.written.email = ADDR_TYPED
    /\ vaultOp.before.written.appPassword = SECRET_SPACED
    /\ vaultOp.value.email = ADDR_GMAIL
    /\ vaultOp.value.appPassword = SECRET_PLAIN

\* C15 as stated: a retrieve made more than an hour after the envelope's
\* timestamp returns null and removes the envelope; one made at or before
\* the hour leaves the envelope that store wrote where it is.
C15_ExpiryAtEnvelopeHour ==
    LET item == vaultOp.before IN
    (vaultOp.op = "retrieve" /\ item.kind = "envelope") =>
       /\ vaultOp.t0 - item.timestamp > SESSION_TIMEOUT
             => /\ vaultOp.value = NoCredential
                /\ sessionStorage[vaultOp.load] = NoItem
       /\ (prevOp = "store" /\ vaultOp.t0 - item.timestamp <= SESSION_TIMEOUT)
             => /\ ~vaultOp.changed
                /\ sessionStorage[vaultOp.load] = item

\* C15: a retrieve made more than an hour after the envelope's timestamp
\* returns null and removes the envelope; a retrieve of the envelope that
\* store wrote, completed no more than an hour after that store was called
\* (the timestamp of the credential inside), does not purge it.
C15_ExpiryPurges ==
    LET item == vaultOp.before IN
    (vaultOp.op = "retrieve" /\ item.kind = "envelope") =>
       /\ vaultOp.t0 - item.timestamp > SESSION_TIMEOUT
             => /\ vaultOp.value = NoCredential
                /\ sessionStorage[vaultOp.load] = NoItem
       /\ (prevOp = "store" /\ vaultOp.t1 - item.written.at <= SESSION_TIMEOUT)
             => /\ ~vaultOp.changed
                /\ sessionStorage[vaultOp.load] = item
                /\ vaultOp.value # NoCredential

\* An envelope older than an hour was retrieved: null, and nothing left.
C15_Witness ==
    /\ vaultOp.op = "retrieve" /\ prevOp = "store"
    /\ vaultOp.before.kind = "envelope"
    /\ vaultOp.t0 - vaultOp.before.timestamp > SESSION_TIMEOUT
    /\ vaultOp.value = NoCredential
    /\ vaultOp.changed
    /\ sessionStorage[vaultOp.load] = NoItem

\* C16: retrieve never throws; it returns null when the item is missing
\* (none, or the empty string), expired, not parsable, or fails the
\* integrity check, and in all these cases but the first the item is gone
\* from the storage afterwards.
C16_RetrieveNeverRaises ==
    LET item == vaultOp.before
        missing == item.kind \in {"null", "empty"}
        unparsable == item.kind = "garbage"
        broken == item.kind = "envelope" /\ item.encryptedData.tag # "valid"
        expired == /\ item.kind = "envelope"
                   /\ \/ vaultOp.t0 - item.timestamp > SESSION_TIMEOUT
                      \/ /\ item.encryptedData.tag = "valid"
                         /\ vaultOp.t1 - item.written.at > SESSION_TIMEOUT
    IN
    vaultOp.op = "retrieve" =>
       /\ ~vaultOp.threw
       /\ (missing \/ expired \/ unparsable \/ broken)
             => vaultOp.value = NoCredential
       /\ (expired \/ unparsable \/ broken)
             => sessionStorage[vaultOp.load] = NoItem
       /\ missing => ~vaultOp.changed

\* An envelope whose ciphertext was altered was retrieved: null, no throw,
\* and the item removed.
C16_Witness ==
    /\ vaultOp.op = "retrieve"
    /\ vaultOp.before.kind = "envelope"
    /\ vaultOp.before.encryptedData.tag = "invalid"
    /\ ~vaultOp.threw
    /\ vaultOp.value = NoCredential
    /\ sessionStorage[vaultOp.load] = NoItem

\* C17: clear does not fail whatever the storage holds and leaves no item
\* under the key; a clear right after a clear changes nothing; a retrieve
\* right after a clear returns null.
C17_ClearIdempotent ==
    /\ vaultOp.op = "clear"
          => /\ ~vaultOp.threw
             /\ sessionStorage[vaultOp.load] = NoItem
             /\ vaultOp.changed <=> vaultOp.before # NoItem
             /\ prevOp = "clear" => ~vaultOp.changed
    /\ (vaultOp.op = "retrieve" /\ prevOp = "clear")
          => /\ vaultOp.value = NoCredential
             /\ ~vaultOp.changed

\* A clear removed an item that was not an envelope.
C17_Witness ==
    /\ vaultOp.op = "clear"
    /\ vaultOp.before.kind = "garbage"
    /\ vaultOp.changed
    /\ sessionStorage[vaultOp.load] = NoItem

\* C18: the passphrases derived in two different page loads differ, the
\* derivations inside one page load give the same passphrase, and a
\* retrieve of an envelope written in an earlier page load returns null.
C18_ReloadInvalidates ==
    /\ sameWithinLoad
    /\ \A l1 \in 1..MaxPageLoads, l2 \in 1..MaxPageLoads :
          (l1 # l2 /\ derivedIn[l1] # <<>> /\ derivedIn[l2] # <<>>)
             => derivedIn[l1] # derivedIn[l2]
    /\ (/\ vaultOp.op = "retrieve"
        /\ vaultOp.before.kind = "envelope"
        /\ vaultOp.before.written.load # vaultOp.load)
          => vaultOp.value = NoCredential

(***************************************************************************)
(* The pooled transporter's life (SpecLifecycle).                          *)
(***************************************************************************)
\* The pooled batches that got as far as a transporter.
PooledSendsStarted == {b \in Batches : bState[b] \in {"running", "resolved"}}

\* Every open pool is the one the module singleton refers to.
C20_AtMostOne ==
    \A p \in 1..Len(pools) : ~pools[p].closed => pooledEmailTransporter = p

\* C20: the process never holds more than one pooled transporter (a pool
\* that is open is the singleton); a pool is created only in a step in
\* which a pooled send starts while the singleton is empty, so none exists
\* at start-up and a sequential send creates none; and when the SIGTERM or
\* SIGINT handler has run, every pool is closed and the singleton is null.
C20_PoolLifecycle ==
    /\ [](C20_AtMostOne /\ Len(pools) <= Cardinality(PooledSendsStarted))
    /\ [][/\ pools' # pools /\ Len(pools') > Len(pools)
             => /\ pooledEmailTransporter = 0
                /\ Len(pools') = Len(pools) + 1
                /\ pooledEmailTransporter' = Len(pools')
                /\ \E b \in Batches : bState[b] = "none" /\ bState'[b] = "running"
                /\ call' = call
          /\ signals' # signals
             => /\ pooledEmailTransporter' = 0
                /\ \A p \in 1..Len(pools') : pools'[p].closed]_vars

\* A signal arrived while a pooled batch was running and a sequential send
\* had been made: the pool is closed and the singleton empty.
C20_Witness ==
    /\ signals # <<>>
    /\ bState[1] = "running"
    /\ call # NoCall
    /\ Len(pools) = 1 /\ pools[1].closed
    /\ pooledEmailTransporter = 0

(***************************************************************************)
(* The credential in the browser (SpecClient).                             *)
(***************************************************************************)
\* No saved field of the wizard session was computed from the secret.
NotInLocalStorage ==
    \A p \in localStorage :
       "secret" \notin p[2] /\ p[1] \notin {"credentials", "appPassword"}

C21_SecurityHeadersAlways ==
    postPc = "done" =>
       /\ postResponse.status \in {200, 400, 401, 405, 429, 500}
       /\ {<<"X-Content-Type-Options", "nosniff">>, <<"X-Frame-Options", "DENY">>,
           <<"Cache-Control", "no-store, no-cache, must-revalidate">>}
             \subseteq postResponse.headers

(***************************************************************************)
(* The mail backends (SpecDispatch, SpecPool).                             *)
(***************************************************************************)
\* C22: a result of the hosted-API backend is marked success only when the
\* provider returned a message id, and a send the provider reported an
\* error for, thrown or returned without data, has success false and an
\* error detail.
C22_HostedApiResult ==
    call.provider = "resend" =>
       \A i \in 1..Len(seqResults) :
          /\ seqResults[i].success => seqResults[i].messageId = "id"
          /\ (\E k \in 1..Len(wire) :
                 wire[k].rcpt = seqResults[i].rcpt /\ ~wire[k].accepted)
                => ~seqResults[i].success /\ seqResults[i].error # ""

\* C23: a missing logo file fails no send: with the logo absent, no result
\* of the sequential or of the pooled direct-submission path carries the
\* error of the unreadable file, every sequential message still reaches the
\* mail server, and a message the server accepted has a success result.
C23_LogoAbsenceHarmless ==
    ~logoOnDisk =>
       /\ \A i \in 1..Len(seqResults) :
             /\ seqResults[i].error # LOGO_ENOENT
             /\ \E k \in 1..Len(wire) : wire[k].rcpt = seqResults[i].rcpt
             /\ (\E k \in 1..Len(wire) :
                    wire[k].rcpt = seqResults[i].rcpt /\ wire[k].accepted)
                   => seqResults[i].success
       /\ \A b \in Batches : \A i \in 1..Len(results[b]) :
             results[b][i].error # LOGO_ENOENT

\* The part of an address after its @, and String.prototype.endsWith.
DomainOf(s) ==
    SubSeq(s, 1 + (CHOOSE k \in 1..Len(s) : s[k] = "@"), Len(s))
endsWith(s, suffix) ==
    Len(s) >= Len(suffix) /\ SubSeq(s, Len(s) - Len(suffix) + 1, Len(s)) = suffix

\* C24: a 401 answer carries the institutional hint exactly when the domain
\* of the submitted address ends in .edu.in, and the consumer hint exactly
\* when the domain is gmail.com.
C24_HintByDomain ==
    (postPc = "done" /\ postResponse.status = 401) =>
       LET domain == DomainOf(trim(postRequest.body.email)) IN
       /\ postResponse.error = "Unable to connect to your institutional email server."
             <=> endsWith(domain, DOT_EDU_IN)
       /\ postResponse.error = "Invalid email or app password. Please check your credentials."
             <=> domain = GMAIL_COM


(***************************************************************************)
(* The generation step in its tab (SpecTab) and logins (SpecLogin).        *)
(***************************************************************************)
\* C25: once the storage listener has run for an event that removed the
\* vault's item, the tab no longer reports itself authenticated: the
\* hook's isAuthenticated is false and its email is empty.
C25_NotAuthenticatedAfterStorageEvent ==
    vaultOp.op = "storage" =>
       ~hookState.isAuthenticated /\ hookState.email = <<>>

\* C29: whenever sendEmailsOnly has returned without issuing the batch-send
\* request, emailStatus is not "sending" and isSendingMail is false, so
\* the Send button is not left disabled by them.
C29_NeverStuckSending ==
    sendUi.pc = "idle" /\ sendUi.returned \in {"alert", "prompt", "promptInTry"}
       => sendUi.emailStatus # "sending" /\ ~sendUi.isSendingMail

\* C30: a login stores a credential only when the validation endpoint
\* confirmed it; a login whose validation failed, was rate-limited or
\* errored (or was not asked for) did not call the store and left the
\* vault as it was.
C30_StoreOnlyAfterValidation ==
    /\ lastLogin.storeCalled => lastLogin.answer = "ok"
    /\ lastLogin.answer \notin {"none", "ok"} =>
          ~lastLogin.storeCalled /\ ~lastLogin.vaultChanged

\* A rate-limited login has returned while the vault holds the envelope
\* of an earlier, confirmed login.
C30_Witness ==
    /\ lastLogin.answer = "rateLimited"
    /\ sessionStorage[STORAGE_KEY].kind = "envelope"


(***************************************************************************)
(* Live checks of client-supplied credentials (SpecLive).                  *)
(***************************************************************************)
\* C28: every endpoint that tests client-supplied credentials against the
\* mail server applies the per-client rate limit before the test, so a
\* client gets at most five live checks in a window of 15 minutes.
C28_LiveChecksRateLimited ==
    /\ lastAttempt.status \in {200, 401} =>
          lastAttempt.checked /\ lastAttempt.before # lastAttempt.after
    /\ lastSmtpTest.live => lastSmtpTest.rateChecked
    /\ \A ip \in Clients : smtpTestLog[ip].n <= RATE_LIMIT_MAX_ATTEMPTS


(***************************************************************************)
(* Pooled batches that overlap (SpecPool).                                 *)
(***************************************************************************)
\* C26: the pooled batches that run share the singleton pool, and no step
\* closes a pool while a batch on it still has a recipient queued or a
\* send in flight.
C26_NeverClosedUnderABatch ==
    [][/\ \A b \in Batches :
             bState'[b] = "running" => bArgs'[b].pool = pooledEmailTransporter'
       /\ \A p \in 1..Len(pools) :
             (~pools[p].closed /\ pools'[p].closed) =>
                \A b \in Batches :
                   bArgs[b].pool = p =>
                      /\ queuedRecipients'[b] = <<>>
                      /\ ~\E x \in inflight' : x.b = b]_vars

\* C27: every message of a pooled batch goes out over a pool that
\* authenticates with the credential that was supplied to that batch.
C27_AuthenticatedAsSupplied ==
    \A x \in inflight :
       ~x.dead => pools[x.pool].auth = bArgs[x.b].credentials

====
